---- MODULE Spec2Model ----
(***************************************************************************)
(* A model of yoink's resumable concurrent crawl: the Scheduler (frontier), *)
(* the Crawler's worker pool and resume logic, the CheckpointManager and    *)
(* the LocalFileStorage it writes through.                                  *)
(***************************************************************************)
EXTENDS Integers, Sequences, FiniteSets, TLC

(* ------------------------------------------------------------------ *)
(* Bounds of the model                                                 *)
(* ------------------------------------------------------------------ *)
MaxDepthBound == 2      \* CrawlConfig.max_depth ranges over 0..MaxDepthBound
MaxPagesBound == 2      \* CrawlConfig.max_pages ranges over 1..MaxPagesBound
MaxFlushInterval == 2   \* flush_interval is 1 or MaxFlushInterval in a crawl, 1..MaxFlushInterval for a client
MaxCalls == 4           \* calls made on one CheckpointManager by a client
MaxWrites == 3          \* write() calls made on one storage path
MaxSingleDepth == 3     \* max_depth is 0..MaxSingleDepth in a crawl with one worker
MaxSinglePages == 5     \* max_pages is 1..MaxSinglePages in a crawl with one worker
MaxInstances == 2       \* LocalFileStorage instances opened on one path, in turn

(* ------------------------------------------------------------------ *)
(* The web the crawler sees: URLs, their authority, their links        *)
(* ------------------------------------------------------------------ *)
None == "None"

\* a URL: its authority, the directories of its path (each followed by "/"),
\* the path as a whole, and the extension the path ends with
DeepUrl(n, ds, p, e) == [netloc |-> n, dirs |-> ds, path |-> p, ext |-> e]
Url(n, p, e) == DeepUrl(n, <<>>, p, e)
UA == Url("a.test", "/", "")
UB == Url("a.test", "/b", "")
UC == Url("a.test", "/c.pdf", "pdf")
UX == Url("o.test", "/", "")
URLS == {UA, UB, UC, UX}

\* a second site: its front page links to two pages, the first of which
\* links back to the front page
EA == Url("e.test", "/", "")
EB == Url("e.test", "/b", "")
EC == Url("e.test", "/c", "")

\* a third site: its page c is two links from the front page by way of b and
\* three links by way of x and y
SA == Url("s.test", "/", "")
SB == Url("s.test", "/b", "")
SX == Url("s.test", "/x", "")
SY == Url("s.test", "/y", "")
SC == Url("s.test", "/c", "")

\* Parser.parse(html, url)["links"]: the links of each page of the site
Links(u) ==
    CASE u = UA -> <<UB, UX>>
      [] u = UB -> <<UA, UC>>
      [] u = UX -> <<UC, UB>>
      [] u = EA -> <<EB, EC>>
      [] u = EB -> <<EA>>
      [] u = EC -> <<>>
      [] u = SA -> <<SB, SX>>
      [] u = SB -> <<SC>>
      [] u = SX -> <<SY>>
      [] u = SY -> <<SC>>
      [] u = SC -> <<SA>>
      [] OTHER  -> <<UA>>

Workers == {1, 2}       \* worker_id in range(max_concurrency)

\* urlparse(url).netloc
netloc(u) == u.netloc

VARIABLES
    \* --- configuration of the current run (CrawlConfig, Crawler arguments)
    \*     and the URL given to crawl()
    max_depth, max_pages, follow_external, url_filter, resume, flush_interval,
    start_url,
    \* --- Scheduler
    queue, visited, filtered, start_domain,
    \* --- Crawler
    pages, mainpc, pc, item, todo,
    \* --- CheckpointManager and LocalFileStorage
    page_count, file_handle, wbuf, disk,
    \* --- bookkeeping of the run
    \*     (admitted, popped: the entries add() queued and get() returned,
    \*     in order, in this process)
    run, lastAdd, admitted, popped, disk0, states_written, inflight,
    \* --- a client of CheckpointManager (write calls, close, load)
    phase, written, on_disk, loaded,
    \* --- tasks calling a storage backend directly: where each task is in its
    \*     call, the locals of that call, write() calls begun, data of the
    \*     write() calls that returned, in that order
    spc, sloc, started, issued,
    \* --- S3Storage: self._buffer, the object, close() done
    s3_buffer, s3_object, s3_closed,
    \* --- LocalFileStorage: the file handles opened on the path, the one in
    \*     self._file_handle (0 for None), instances so far, whether a handle
    \*     was replaced while open, data written before a returned flush()
    handles, cur, instance, raced, must_see

cfgvars  == <<max_depth, max_pages, follow_external, url_filter, resume, flush_interval, start_url>>
schedvars == <<queue, visited, filtered, start_domain>>
crawlvars == <<pages, mainpc, pc, item, todo>>
ckptvars == <<page_count, file_handle, wbuf, disk>>
histvars == <<run, lastAdd, admitted, popped, disk0, states_written, inflight>>
clientvars == <<phase, written, on_disk, loaded>>
callvars == <<spc, sloc, started, issued>>
s3vars == <<s3_buffer, s3_object, s3_closed>>
localvars == <<handles, cur, instance, raced, must_see>>
storevars == <<callvars, s3vars, localvars>>
vars == <<cfgvars, schedvars, crawlvars, ckptvars, histvars, clientvars, storevars>>

(* ------------------------------------------------------------------ *)
(* Small helpers                                                       *)
(* ------------------------------------------------------------------ *)
Range(s) == {s[i] : i \in DOMAIN s}

\* list(a_set): the elements of a set in some order
RECURSIVE list(_)
list(S) == IF S = {} THEN <<>>
           ELSE LET x == CHOOSE y \in S : TRUE IN <<x>> \o list(S \ {x})

(* ------------------------------------------------------------------ *)
(* The checkpoint file: lines of JSON text                             *)
(* A line is the sequence of the texts written on it: normally one     *)
(* json.dumps(record) ended by "\n". A text cut short by a crash is    *)
(* [whole |-> FALSE]; it carries no newline, so the next text appended *)
(* lands on the same line.                                             *)
(* ------------------------------------------------------------------ *)
Text(r)    == [rec |-> r, whole |-> TRUE]
CutText(r) == [rec |-> r, whole |-> FALSE]

terminated(line) == line[Len(line)].whole

\* file opened with mode="a": data goes after the last byte of the file
append_text(d, t) ==
    IF d # <<>> /\ ~terminated(d[Len(d)])
    THEN [d EXCEPT ![Len(d)] = Append(@, t)]
    ELSE Append(d, <<t>>)

RECURSIVE append_all(_, _)
append_all(d, ts) ==
    IF ts = <<>> THEN d ELSE append_all(append_text(d, Head(ts)), Tail(ts))

\* json.loads(line) succeeds exactly on one whole JSON object
json_ok(line) == Len(line) = 1 /\ line[1].whole
json_loads(line) == line[1].rec

\* LocalFileStorage.exists(): the path exists once something was written to it
exists(d) == d # <<>>

(* ------------------------------------------------------------------ *)
(* Records of the checkpoint log                                       *)
(* ------------------------------------------------------------------ *)
Page(u, d) == [url |-> u, depth |-> d, links |-> Links(u)]

metadata_record(u) == [type |-> "metadata", start_url |-> u]

\* {"type": "page", **page.model_dump(mode="json")}
page_record(p) == [type |-> "page", url |-> p.url, depth |-> p.depth, links |-> p.links]

\* a Page built without the depth of the record (the field's default)
page_of_default_depth(data) == [url |-> data.url, depth |-> 0, links |-> data.links]

\* Page(**{k: v for k, v in data.items() if k != "type"})
page_of(data) == [url |-> data.url, depth |-> data.depth, links |-> data.links]

state_record(vis, q, fil) ==
    [type |-> "state", visited |-> list(vis), queue |-> q, filtered |-> list(fil)]

(* ------------------------------------------------------------------ *)
(* CheckpointManager.load                                              *)
(* metadata and state are kept as sequences of length 0 (None) or 1    *)
(* ------------------------------------------------------------------ *)
NoData == [metadata |-> <<>>, pages |-> <<>>, state |-> <<>>]

\* a load that gives up at the first malformed line
load_line_abort(acc, line) ==
    IF line = <<>> THEN acc
    ELSE IF ~json_ok(line) THEN NoData
    ELSE LET data == json_loads(line) IN
         CASE data.type = "metadata" -> [acc EXCEPT !.metadata = <<data>>]
           [] data.type = "page"     -> [acc EXCEPT !.pages = Append(@, page_of(data))]
           [] data.type = "state"    -> [acc EXCEPT !.state = <<data>>]
           [] OTHER                  -> acc

\* a load that keeps the first snapshot of the log
load_line_keep_first(acc, line) ==
    IF line = <<>> THEN acc
    ELSE IF ~json_ok(line) THEN acc
    ELSE LET data == json_loads(line) IN
         CASE data.type = "metadata" -> [acc EXCEPT !.metadata = <<data>>]
           [] data.type = "page"     -> [acc EXCEPT !.pages = Append(@, page_of(data))]
           [] data.type = "state"    ->
                IF acc.state = <<>> THEN [acc EXCEPT !.state = <<data>>] ELSE acc
           [] OTHER                  -> acc

load_line(acc, line) ==
    IF line = <<>> THEN acc                       \* blank line: continue
    ELSE IF ~json_ok(line) THEN acc               \* JSONDecodeError: log, continue
    ELSE LET data == json_loads(line) IN
         CASE data.type = "metadata" -> [acc EXCEPT !.metadata = <<data>>]
           [] data.type = "page"     -> [acc EXCEPT !.pages = Append(@, page_of(data))]
           [] data.type = "state"    -> [acc EXCEPT !.state = <<data>>]
           [] OTHER                  -> acc

RECURSIVE load_lines(_, _)
load_lines(acc, lines) ==
    IF lines = <<>> THEN acc
    ELSE load_lines(load_line(acc, Head(lines)), Tail(lines))

load(d) == IF ~exists(d) THEN NoData ELSE load_lines(NoData, d)

(* ------------------------------------------------------------------ *)
(* Scheduler                                                           *)
(* ------------------------------------------------------------------ *)
\* CombinedFilter.from_config: the fields of its URLFilter and the
\* allowed_domains of its DomainFilter ({} for no DomainFilter)
CombinedFilter(include, exclude, skip, allowed) ==
    <<[include_patterns |-> include, exclude_patterns |-> exclude,
       skip_extensions |-> skip, allowed_domains |-> allowed]>>
\* URLFilter.__init__; a CombinedFilter without a DomainFilter
URLFilter(include, exclude, skip) == CombinedFilter(include, exclude, skip, {})
NoFilter  == <<>>
PdfFilter == URLFilter({}, {}, {"pdf"})

\* the glob pattern "*/<dir>/*"
Glob(dir) == [glob |-> dir]

\* URLFilter._match_pattern for a glob: fnmatch(url, "*/<dir>/*") holds when
\* the URL contains "/<dir>/", that is when <dir> is one of the directories of
\* the path, or the authority (which "//" precedes and the path follows)
match_pattern(url, pattern) == pattern.glob \in Range(url.dirs) \cup {url.netloc}

\* a filter in which a matching include pattern lets the URL through at once
should_crawl_include_wins(f, url) ==
    /\ url.ext \notin f.skip_extensions
    /\ \/ f.include_patterns = {}
          /\ ~\E p \in f.exclude_patterns : match_pattern(url, p)
       \/ \E p \in f.include_patterns : match_pattern(url, p)

\* URLFilter.should_crawl: the extension, then the include patterns (one must
\* match when there are any), then the exclude patterns (none may match)
should_crawl(f, url) ==
    /\ url.ext \notin f.skip_extensions
    /\ f.include_patterns # {} => \E p \in f.include_patterns : match_pattern(url, p)
    /\ ~\E p \in f.exclude_patterns : match_pattern(url, p)

\* the labels of an authority, which "." separates
labels(n) ==
    CASE n = "a.test"      -> <<"a", "test">>
      [] n = "o.test"      -> <<"o", "test">>
      [] n = "e.test"      -> <<"e", "test">>
      [] n = "s.test"      -> <<"s", "test">>
      [] n = "xa.test"     -> <<"xa", "test">>
      [] n = "blog.a.test" -> <<"blog", "a", "test">>
      [] n = "test"        -> <<"test">>
      [] OTHER             -> <<n>>

\* domain.endswith("." + allowed)
endswith_dot(domain, allowed) ==
    LET d == labels(domain)
        a == labels(allowed)
    IN  Len(a) < Len(d) /\ SubSeq(d, Len(d) - Len(a) + 1, Len(d)) = a

\* DomainFilter.should_crawl: no list, an exact match, or a subdomain
domain_should_crawl(f, url) ==
    IF f.allowed_domains = {} THEN TRUE
    ELSE IF url.netloc \in f.allowed_domains THEN TRUE
    ELSE \E allowed \in f.allowed_domains : endswith_dot(url.netloc, allowed)

\* a combined filter that lets a URL of an allowed domain through at once
combined_should_crawl_domain_wins(f, url) ==
    IF ~domain_should_crawl(f, url) THEN FALSE
    ELSE IF f.allowed_domains # {} THEN TRUE
    ELSE should_crawl(f, url)

\* CombinedFilter.should_crawl: the domain filter, then the URL filter
combined_should_crawl(f, url) ==
    IF ~domain_should_crawl(f, url) THEN FALSE
    ELSE IF ~should_crawl(f, url) THEN FALSE
    ELSE TRUE

\* admission without the visited check
admission_no_dedup(url, depth, sd) ==
    IF depth > max_depth THEN "depth"
    ELSE IF ~follow_external /\ netloc(url) # sd THEN "external"
    ELSE IF url_filter # NoFilter /\ ~combined_should_crawl(url_filter[1], url) THEN "filtered"
    ELSE "queued"

\* admission without the scope check
admission_no_scope(url, depth, sd) ==
    IF url \in visited THEN "visited"
    ELSE IF depth > max_depth THEN "depth"
    ELSE IF url_filter # NoFilter /\ ~combined_should_crawl(url_filter[1], url) THEN "filtered"
    ELSE "queued"

\* The ordered checks of Scheduler.add, sd being self.start_domain after
\* its assignment: the name of the first check that rejects, or "queued"
admission(url, depth, sd) ==
    IF url \in visited THEN "visited"
    ELSE IF depth > max_depth THEN "depth"
    ELSE IF ~follow_external /\ netloc(url) # sd THEN "external"
    ELSE IF url_filter # NoFilter /\ ~combined_should_crawl(url_filter[1], url) THEN "filtered"
    ELSE "queued"

\* an add() that assigns the start domain only when it admits the URL
add_domain_on_admission(url, depth) ==
    LET sd  == IF start_domain = None THEN netloc(url) ELSE start_domain
        res == admission(url, depth, sd)
    IN  /\ start_domain' = IF res = "queued" THEN sd ELSE start_domain
        /\ filtered' = IF res = "filtered" THEN filtered \cup {url} ELSE filtered
        /\ visited' = IF res = "queued" THEN visited \cup {url} ELSE visited
        /\ queue' = IF res = "queued" THEN Append(queue, <<url, depth>>) ELSE queue
        /\ admitted' = IF res = "queued" THEN Append(admitted, <<url, depth>>) ELSE admitted
        /\ lastAdd' = [url |-> url, depth |-> depth, result |-> res]

\* an add() that records every URL it turns down in the filtered set
add_filters_every_rejection(url, depth) ==
    LET sd  == IF start_domain = None THEN netloc(url) ELSE start_domain
        res == admission(url, depth, sd)
    IN  /\ start_domain' = sd
        /\ filtered' = IF res # "queued" THEN filtered \cup {url} ELSE filtered
        /\ visited' = IF res = "queued" THEN visited \cup {url} ELSE visited
        /\ queue' = IF res = "queued" THEN Append(queue, <<url, depth>>) ELSE queue
        /\ admitted' = IF res = "queued" THEN Append(admitted, <<url, depth>>) ELSE admitted
        /\ lastAdd' = [url |-> url, depth |-> depth, result |-> res]

\* Scheduler.add(url, depth), one critical section of self._lock
add(url, depth) ==
    LET sd  == IF start_domain = None THEN netloc(url) ELSE start_domain
        res == admission(url, depth, sd)
    IN  /\ start_domain' = sd
        /\ filtered' = IF res = "filtered" THEN filtered \cup {url} ELSE filtered
        /\ visited' = IF res = "queued" THEN visited \cup {url} ELSE visited
        /\ queue' = IF res = "queued" THEN Append(queue, <<url, depth>>) ELSE queue
        /\ admitted' = IF res = "queued" THEN Append(admitted, <<url, depth>>) ELSE admitted
        /\ lastAdd' = [url |-> url, depth |-> depth, result |-> res]

\* a get() that takes the entry added last
get_newest(w) ==
    IF queue # <<>>
    THEN /\ item' = [item EXCEPT ![w] = queue[Len(queue)]]
         /\ queue' = SubSeq(queue, 1, Len(queue) - 1)
         /\ popped' = Append(popped, queue[Len(queue)])
    ELSE /\ item' = [item EXCEPT ![w] = <<>>]
         /\ UNCHANGED <<queue, popped>>

\* a get() that returns the head of the queue and leaves it queued
get_without_pop(w) ==
    IF queue # <<>>
    THEN /\ item' = [item EXCEPT ![w] = Head(queue)]
         /\ popped' = Append(popped, Head(queue))
         /\ UNCHANGED queue
    ELSE /\ item' = [item EXCEPT ![w] = <<>>]
         /\ UNCHANGED <<queue, popped>>

\* Scheduler.get(), one critical section of self._lock, its result left in
\* the caller's item: self._queue.popleft(), or None (<<>>)
get(w) ==
    IF queue # <<>>
    THEN /\ item' = [item EXCEPT ![w] = Head(queue)]
         /\ queue' = Tail(queue)
         /\ popped' = Append(popped, Head(queue))
    ELSE /\ item' = [item EXCEPT ![w] = <<>>]
         /\ UNCHANGED <<queue, popped>>

\* Scheduler.is_empty()
is_empty == Len(queue) = 0

(* ------------------------------------------------------------------ *)
(* Initial state                                                        *)
(* ------------------------------------------------------------------ *)
\* no task has called a storage backend yet: S3Storage.__init__,
\* LocalFileStorage.__init__
NoLocals == [data |-> <<>>, existing |-> <<>>, handle |-> 0, seen |-> {}]
NoStorageCalls ==
    /\ spc = [w \in Workers |-> "idle"]
    /\ sloc = [w \in Workers |-> NoLocals]
    /\ started = 0 /\ issued = <<>>
    /\ s3_buffer = <<>> /\ s3_object = <<>> /\ s3_closed = FALSE
    /\ handles = <<>> /\ cur = 0 /\ instance = 1 /\ raced = FALSE /\ must_see = {}
NoAdd == [url |-> UA, depth |-> 0, result |-> "none"]

\* Crawler.__init__, Scheduler.__init__, CheckpointManager.__init__,
\* LocalFileStorage.__init__
NewProcess ==
    /\ queue' = <<>> /\ visited' = {} /\ filtered' = {} /\ start_domain' = None
    /\ pages' = <<>>
    /\ pc' = [w \in Workers |-> "idle"]
    /\ item' = [w \in Workers |-> <<>>]
    /\ todo' = [w \in Workers |-> <<>>]
    /\ page_count' = 0 /\ file_handle' = FALSE /\ wbuf' = <<>>
    /\ lastAdd' = NoAdd /\ admitted' = <<>> /\ popped' = <<>> /\ states_written' = 0

Init ==
    /\ max_depth \in 0..MaxDepthBound
    /\ max_pages \in 1..MaxPagesBound
    /\ follow_external \in BOOLEAN
    /\ url_filter \in {NoFilter, PdfFilter}
    /\ resume \in BOOLEAN
    /\ flush_interval \in {1, MaxFlushInterval}
    /\ start_url = UA
    /\ queue = <<>> /\ visited = {} /\ filtered = {} /\ start_domain = None
    /\ pages = <<>> /\ mainpc = "start"
    /\ pc = [w \in Workers |-> "idle"]
    /\ item = [w \in Workers |-> <<>>]
    /\ todo = [w \in Workers |-> <<>>]
    /\ page_count = 0 /\ file_handle = FALSE /\ wbuf = <<>> /\ disk = <<>>
    /\ run = "first" /\ lastAdd = NoAdd /\ admitted = <<>> /\ popped = <<>> /\ disk0 = <<>>
    /\ states_written = 0 /\ inflight = {}
    /\ phase = "crawl" /\ written = <<>> /\ on_disk = <<>> /\ loaded = <<>>
    /\ NoStorageCalls

(* ------------------------------------------------------------------ *)
(* LocalFileStorage                                                     *)
(* wbuf is what was written through the open handle and not yet        *)
(* flushed; disk is the content of the file.                           *)
(* ------------------------------------------------------------------ *)
\* LocalFileStorage.write(data): open in append mode if needed, then write
storage_write(r) ==
    /\ file_handle' = TRUE
    /\ wbuf' = Append(wbuf, Text(r))

\* the file after LocalFileStorage.flush()
flushed == IF file_handle THEN append_all(disk, wbuf) ELSE disk

(* ------------------------------------------------------------------ *)
(* Crawler.crawl                                                        *)
(* ------------------------------------------------------------------ *)
spawn_workers == pc' = [w \in Workers |-> "loop"]

\* crawl(), fresh start: CheckpointManager.write_metadata up to its flush
write_metadata ==
    /\ mainpc = "start" /\ ~resume
    /\ storage_write(metadata_record(start_url))
    /\ mainpc' = "metadata_written"
    /\ UNCHANGED <<storevars, clientvars, cfgvars, schedvars, pages, pc, item, todo, page_count, disk, histvars>>

\* ... the flush of write_metadata, scheduler.add(start_url, depth=0), and
\* the creation of the worker tasks
seed ==
    /\ mainpc = "metadata_written"
    /\ disk' = flushed /\ wbuf' = <<>>
    /\ add(start_url, 0)
    /\ spawn_workers
    /\ mainpc' = "gather"
    /\ UNCHANGED <<storevars, clientvars, cfgvars, pages, item, todo, page_count, file_handle,
                   run, popped, disk0, states_written, inflight>>

\* the start domain taken from the restored state:
\* list(self.scheduler.visited)[0], an arbitrary element of the set, else queue[0][0]
restored_domains(vis, q) ==
    IF vis # {} THEN {netloc(u) : u \in vis}
    ELSE IF q # <<>> THEN {netloc(q[1][1])}
    ELSE {start_domain}

\* a restore that pushes the saved queue back in reverse
restore_state_reversed(state) ==
    /\ visited' = visited \cup Range(state.visited)
    /\ filtered' = filtered \cup Range(state.filtered)
    /\ queue' = [i \in 1..Len(state.queue) |-> state.queue[Len(state.queue) + 1 - i]]
    /\ start_domain' \in restored_domains(visited', queue')

\* a restore that leaves the VisitedSet empty
restore_state_without_visited(state) ==
    /\ visited' = visited
    /\ filtered' = filtered \cup Range(state.filtered)
    /\ queue' = queue \o state.queue
    /\ start_domain' \in restored_domains(visited', queue')

\* _resume_from_checkpoint, the branch "if state:"
restore_state(state) ==
    /\ visited' = visited \cup Range(state.visited)
    /\ filtered' = filtered \cup Range(state.filtered)
    /\ queue' = queue \o state.queue
    /\ start_domain' \in restored_domains(visited', queue')

\* a resume that restores the Scheduler and leaves results empty
resume_from_checkpoint_without_pages ==
    /\ mainpc = "start" /\ resume
    /\ LET checkpoint_data == load(disk) IN
       /\ pages' = <<>>
       /\ IF checkpoint_data.state # <<>>
          THEN /\ restore_state(checkpoint_data.state[1])
               /\ UNCHANGED <<lastAdd, admitted>>
          ELSE add(start_url, 0)
    /\ spawn_workers
    /\ mainpc' = "gather"
    /\ UNCHANGED <<storevars, clientvars, cfgvars, item, todo, ckptvars, run, popped, disk0, states_written, inflight>>

\* Crawler._resume_from_checkpoint, then the creation of the worker tasks
resume_from_checkpoint ==
    /\ mainpc = "start" /\ resume
    /\ LET checkpoint_data == load(disk) IN
       /\ pages' = checkpoint_data.pages
       /\ IF checkpoint_data.state # <<>>
          THEN /\ restore_state(checkpoint_data.state[1])
               /\ UNCHANGED <<lastAdd, admitted>>
          ELSE add(start_url, 0)
    /\ spawn_workers
    /\ mainpc' = "gather"
    /\ UNCHANGED <<storevars, clientvars, cfgvars, item, todo, ckptvars, run, popped, disk0, states_written, inflight>>

(* ------------------------------------------------------------------ *)
(* Crawler._worker                                                      *)
(* ------------------------------------------------------------------ *)
\* a loop that stops one page before max_pages
worker_loop_early_stop(w) ==
    /\ mainpc = "gather" /\ pc[w] = "loop"
    /\ IF Len(pages) + 1 >= max_pages
       THEN /\ pc' = [pc EXCEPT ![w] = "exit"]
            /\ UNCHANGED <<queue, item, popped>>
       ELSE /\ get(w)
            /\ pc' = [pc EXCEPT ![w] = IF item'[w] # <<>> THEN "fetch" ELSE "sleep"]
    /\ UNCHANGED <<storevars, clientvars, cfgvars, visited, filtered, start_domain, pages, mainpc, todo,
                   ckptvars, run, lastAdd, admitted, disk0, states_written, inflight>>

\* a loop that stops only when results holds more than max_pages pages
worker_loop_late_stop(w) ==
    /\ mainpc = "gather" /\ pc[w] = "loop"
    /\ IF Len(pages) > max_pages
       THEN /\ pc' = [pc EXCEPT ![w] = "exit"]
            /\ UNCHANGED <<queue, item, popped>>
       ELSE /\ get(w)
            /\ pc' = [pc EXCEPT ![w] = IF item'[w] # <<>> THEN "fetch" ELSE "sleep"]
    /\ UNCHANGED <<storevars, clientvars, cfgvars, visited, filtered, start_domain, pages, mainpc, todo,
                   ckptvars, run, lastAdd, admitted, disk0, states_written, inflight>>

\* top of the loop: the max_pages check, then scheduler.get()
worker_loop(w) ==
    /\ mainpc = "gather" /\ pc[w] = "loop"
    /\ IF Len(pages) >= max_pages
       THEN /\ pc' = [pc EXCEPT ![w] = "exit"]
            /\ UNCHANGED <<queue, item, popped>>
       ELSE /\ get(w)
            /\ pc' = [pc EXCEPT ![w] = IF item'[w] # <<>> THEN "fetch" ELSE "sleep"]
    /\ UNCHANGED <<storevars, clientvars, cfgvars, visited, filtered, start_domain, pages, mainpc, todo,
                   ckptvars, run, lastAdd, admitted, disk0, states_written, inflight>>

\* after asyncio.sleep(0.1): leave if the queue is empty and some page exists
worker_wake(w) ==
    /\ mainpc = "gather" /\ pc[w] = "sleep"
    /\ pc' = [pc EXCEPT ![w] = IF is_empty /\ Len(pages) > 0 THEN "exit" ELSE "loop"]
    /\ UNCHANGED <<storevars, clientvars, cfgvars, schedvars, pages, mainpc, item, todo, ckptvars, histvars>>

\* fetch, parse and extract succeed: the page is appended to self.pages
fetch_ok(w) ==
    /\ mainpc = "gather" /\ pc[w] = "fetch"
    /\ pages' = Append(pages, Page(item[w][1], item[w][2]))
    /\ todo' = [todo EXCEPT ![w] = Links(item[w][1])]
    /\ pc' = [pc EXCEPT ![w] = "write_page"]
    /\ UNCHANGED <<storevars, clientvars, cfgvars, schedvars, mainpc, item, ckptvars, histvars>>

\* a failure that puts the URL back at the end of the queue
fetch_fail_requeue(w) ==
    /\ mainpc = "gather" /\ pc[w] = "fetch"
    /\ queue' = Append(queue, item[w])
    /\ item' = [item EXCEPT ![w] = <<>>]
    /\ pc' = [pc EXCEPT ![w] = "loop"]
    /\ UNCHANGED <<storevars, clientvars, cfgvars, visited, filtered, start_domain, pages, mainpc, todo,
                   ckptvars, histvars>>

\* fetch, parse or extract raises: the error is logged, the loop continues
fetch_fail(w) ==
    /\ mainpc = "gather" /\ pc[w] = "fetch"
    /\ item' = [item EXCEPT ![w] = <<>>]
    /\ pc' = [pc EXCEPT ![w] = "loop"]
    /\ UNCHANGED <<storevars, clientvars, cfgvars, schedvars, pages, mainpc, todo, ckptvars, histvars>>

\* CheckpointManager.write_page: await self.storage.write(...)
write_page(w) ==
    /\ mainpc = "gather" /\ pc[w] = "write_page"
    /\ storage_write(page_record(Page(item[w][1], item[w][2])))
    /\ pc' = [pc EXCEPT ![w] = "count"]
    /\ UNCHANGED <<storevars, clientvars, cfgvars, schedvars, pages, mainpc, item, todo, page_count, disk,
                   histvars>>

\* a counter compared before it is incremented
write_page_count_stale(w) ==
    /\ mainpc = "gather" /\ pc[w] = "count"
    /\ page_count' = page_count + 1
    /\ pc' = [pc EXCEPT ![w] = IF page_count % flush_interval = 0
                                THEN "flush" ELSE "links"]
    /\ UNCHANGED <<storevars, clientvars, cfgvars, schedvars, pages, mainpc, item, todo, file_handle, wbuf,
                   disk, histvars>>

\* ... self._page_count += 1, then the test of the flush interval, with no
\* suspension point between the two
write_page_count(w) ==
    /\ mainpc = "gather" /\ pc[w] = "count"
    /\ page_count' = page_count + 1
    /\ pc' = [pc EXCEPT ![w] = IF page_count' % flush_interval = 0
                                THEN "flush" ELSE "links"]
    /\ UNCHANGED <<storevars, clientvars, cfgvars, schedvars, pages, mainpc, item, todo, file_handle, wbuf,
                   disk, histvars>>

\* the periodic flush of write_page
flush_page(w) ==
    /\ mainpc = "gather" /\ pc[w] = "flush"
    /\ disk' = flushed /\ wbuf' = <<>>
    /\ pc' = [pc EXCEPT ![w] = "links"]
    /\ UNCHANGED <<storevars, clientvars, cfgvars, schedvars, pages, mainpc, item, todo, page_count,
                   file_handle, histvars>>

\* storage.write or storage.flush raises inside write_page: the exception
\* leaves write_page and the try block of the worker, is logged by its
\* "except Exception", and the loop continues with the next URL (storage
\* errors are followed in the first run of the command)
write_page_error(w) ==
    /\ mainpc = "gather" /\ pc[w] \in {"write_page", "flush"}
    /\ run = "first"
    /\ item' = [item EXCEPT ![w] = <<>>]
    /\ todo' = [todo EXCEPT ![w] = <<>>]
    /\ pc' = [pc EXCEPT ![w] = "loop"]
    /\ UNCHANGED <<storevars, clientvars, cfgvars, schedvars, pages, mainpc, ckptvars, histvars>>

\* links offered at the depth of the page they were found on
add_link_same_depth(w) ==
    /\ mainpc = "gather" /\ pc[w] = "links" /\ todo[w] # <<>>
    /\ add(Head(todo[w]), item[w][2])
    /\ todo' = [todo EXCEPT ![w] = Tail(@)]
    /\ UNCHANGED <<storevars, clientvars, cfgvars, pages, mainpc, pc, item, ckptvars, run, popped, disk0, states_written,
                   inflight>>

\* links offered two levels below the page they were found on
add_link_two_deeper(w) ==
    /\ mainpc = "gather" /\ pc[w] = "links" /\ todo[w] # <<>>
    /\ add(Head(todo[w]), item[w][2] + 2)
    /\ todo' = [todo EXCEPT ![w] = Tail(@)]
    /\ UNCHANGED <<storevars, clientvars, cfgvars, pages, mainpc, pc, item, ckptvars, run, popped, disk0, states_written,
                   inflight>>

\* for link in parsed["links"]: await self.scheduler.add(link, depth + 1)
add_link(w) ==
    /\ mainpc = "gather" /\ pc[w] = "links" /\ todo[w] # <<>>
    /\ add(Head(todo[w]), item[w][2] + 1)
    /\ todo' = [todo EXCEPT ![w] = Tail(@)]
    /\ UNCHANGED <<storevars, clientvars, cfgvars, pages, mainpc, pc, item, ckptvars, run, popped, disk0, states_written,
                   inflight>>

\* the links are exhausted: back to the top of the loop
links_done(w) ==
    /\ mainpc = "gather" /\ pc[w] = "links" /\ todo[w] = <<>>
    /\ item' = [item EXCEPT ![w] = <<>>]
    /\ pc' = [pc EXCEPT ![w] = "loop"]
    /\ UNCHANGED <<storevars, clientvars, cfgvars, schedvars, pages, mainpc, todo, ckptvars, histvars>>

(* ------------------------------------------------------------------ *)
(* Completion: asyncio.gather returned                                  *)
(* ------------------------------------------------------------------ *)
\* Crawler._save_checkpoint_state: CheckpointManager.write_state up to its flush
write_state ==
    /\ \/ mainpc = "gather" /\ \A w \in Workers : pc[w] = "exit"
       \/ mainpc = "interrupted"
    /\ storage_write(state_record(visited, queue, filtered))
    /\ states_written' = states_written + 1
    /\ mainpc' = "state_written"
    /\ UNCHANGED <<storevars, clientvars, cfgvars, schedvars, pages, pc, item, todo, page_count, disk,
                   run, lastAdd, admitted, popped, disk0, inflight>>

\* the flush of write_state
flush_state ==
    /\ mainpc = "state_written"
    /\ disk' = flushed /\ wbuf' = <<>>
    /\ mainpc' = "state_flushed"
    /\ UNCHANGED <<storevars, clientvars, cfgvars, schedvars, pages, pc, item, todo, page_count,
                   file_handle, histvars>>

\* CheckpointManager.close: storage.flush(), storage.close(); crawl() returns
close ==
    /\ mainpc = "state_flushed"
    /\ disk' = flushed /\ wbuf' = <<>>
    /\ file_handle' = FALSE
    /\ mainpc' = "done"
    /\ UNCHANGED <<storevars, clientvars, cfgvars, schedvars, pages, pc, item, todo, page_count, histvars>>

(* ------------------------------------------------------------------ *)
(* The crawl is aborted from outside while the workers run              *)
(* ------------------------------------------------------------------ *)
\* the caller cancels crawl() (task.cancel(), a timeout around it): the
\* CancelledError leaves "await asyncio.gather(*workers)", the workers are
\* cancelled with it, and crawl() is left without reaching the lines after the
\* "async with" block
cancel ==
    /\ mainpc = "gather"
    /\ mainpc' = "cancelled"
    /\ pc' = [w \in Workers |-> "cancelled"]
    /\ UNCHANGED <<storevars, clientvars, cfgvars, schedvars, pages, item, todo, ckptvars, histvars>>

\* the workers of this process were cancelled by an interrupt
interrupted == \E w \in Workers : pc[w] = "cancelled"

\* Ctrl+C under the command line: asyncio.run cancels the tasks and raises
\* KeyboardInterrupt, whose handler then runs _save_checkpoint_state() and
\* close(); a worker's URL that was popped and not yet fetched stays in its item
interrupt ==
    /\ mainpc = "gather" /\ run = "first"
    /\ mainpc' = "interrupted"
    /\ inflight' = {item[w][1] : w \in {v \in Workers : pc[v] = "fetch"}}
    /\ pc' = [w \in Workers |-> "cancelled"]
    /\ UNCHANGED <<storevars, clientvars, cfgvars, schedvars, pages, item, todo, ckptvars,
                   run, lastAdd, admitted, popped, disk0, states_written>>

(* ------------------------------------------------------------------ *)
(* The process dies (power loss, kill): what the handle had buffered    *)
(* reaches the file up to an arbitrary point, possibly inside a record  *)
(* ------------------------------------------------------------------ *)
\* the file when the first k buffered texts got out whole and, if cut, the
\* next one in part
crash_file(k, cut) ==
    IF cut THEN append_text(append_all(disk, SubSeq(wbuf, 1, k)), CutText(wbuf[k + 1].rec))
    ELSE append_all(disk, SubSeq(wbuf, 1, k))

crash_files ==
    {crash_file(k, FALSE) : k \in 0..Len(wbuf)}
    \cup {crash_file(k, TRUE) : k \in 0..(Len(wbuf) - 1)}

\* the URLs the command may be given when it is run again
ResumeUrls == {UA, UX}

crash ==
    /\ mainpc \in {"metadata_written", "gather", "state_written", "state_flushed"}
    /\ run = "first" /\ ~interrupted
    /\ disk' \in crash_files
    /\ NewProcess
    /\ mainpc' = "crashed"
    /\ UNCHANGED <<storevars, clientvars, cfgvars, run, disk0, inflight>>

\* the command is run again with --resume on the same checkpoint file:
\* after a crawl that returned by itself with the same page budget or one page
\* more, otherwise with the same budget; after an interrupt with the depth it
\* had, otherwise with that depth or the next smaller one. The URL argument is the operator's choice
\* too; with a snapshot in the log it is only compared with the Metadata
\* (crawler.py:287-293, a warning), so it is varied for logs without one
restart ==
    /\ mainpc \in {"done", "crashed"} /\ run = "first"
    /\ run' = "resumed"
    /\ max_depth' \in IF interrupted THEN {max_depth}
                      ELSE {d \in 0..MaxDepthBound : max_depth - 1 <= d /\ d <= max_depth}
    /\ max_pages' \in IF mainpc = "done" /\ ~interrupted
                      THEN {p \in 1..MaxPagesBound : max_pages <= p /\ p <= max_pages + 1}
                      ELSE {max_pages}
    /\ resume' = TRUE
    /\ start_url' \in IF interrupted \/ load(disk).state # <<>>
                      THEN {start_url} ELSE ResumeUrls
    /\ NewProcess
    /\ mainpc' = "start"
    /\ disk0' = disk
    /\ UNCHANGED <<storevars, clientvars, follow_external, url_filter, flush_interval, disk, inflight>>

Next ==
    \/ write_metadata
    \/ seed
    \/ resume_from_checkpoint
    \/ \E w \in Workers : worker_loop(w)
    \/ \E w \in Workers : worker_wake(w)
    \/ \E w \in Workers : fetch_ok(w)
    \/ \E w \in Workers : fetch_fail(w)
    \/ \E w \in Workers : write_page(w)
    \/ \E w \in Workers : write_page_count(w)
    \/ \E w \in Workers : flush_page(w)
    \/ \E w \in Workers : write_page_error(w)
    \/ \E w \in Workers : add_link(w)
    \/ \E w \in Workers : links_done(w)
    \/ write_state
    \/ flush_state
    \/ close
    \/ cancel
    \/ interrupt
    \/ crash
    \/ restart

Spec == Init /\ [][Next]_vars

(* ------------------------------------------------------------------ *)
(* The crawl under fair scheduling: the event loop runs every task that *)
(* is ready (a worker after its sleep, its fetch or its write; crawl()  *)
(* after gather), and the process is not killed                         *)
(* ------------------------------------------------------------------ *)
worker(w) ==
    \/ worker_loop(w) \/ worker_wake(w)
    \/ fetch_ok(w) \/ fetch_fail(w)
    \/ write_page(w) \/ write_page_count(w) \/ flush_page(w) \/ write_page_error(w)
    \/ add_link(w) \/ links_done(w)

crawl ==
    \/ write_metadata \/ seed \/ resume_from_checkpoint
    \/ write_state \/ flush_state \/ close

NextFair == crawl \/ (\E w \in Workers : worker(w)) \/ restart

FairSpec ==
    /\ Init /\ [][NextFair]_vars
    /\ WF_vars(crawl)
    /\ \A w \in Workers : WF_vars(worker(w))

(* ------------------------------------------------------------------ *)
(* A client of CheckpointManager on a new file: it makes up to MaxCalls *)
(* write calls, then closes the manager (or the process dies), then a   *)
(* second manager loads the file, possibly twice                        *)
(* ------------------------------------------------------------------ *)
ClientPages == {Page(UA, 0), Page(UB, 1)}
ClientStates ==
    { [visited |-> {UA}, queue |-> <<<<UB, 1>>>>, filtered |-> {}],
      [visited |-> {UA, UB}, queue |-> <<>>, filtered |-> {UC}] }
ClientStartUrls == {UA, UX}

InitClient ==
    /\ max_depth = 0 /\ max_pages = 1 /\ follow_external = FALSE
    /\ url_filter = NoFilter /\ resume = FALSE
    /\ flush_interval \in 1..MaxFlushInterval
    /\ start_url = UA
    /\ queue = <<>> /\ visited = {} /\ filtered = {} /\ start_domain = None
    /\ pages = <<>> /\ mainpc = "client"
    /\ pc = [w \in Workers |-> "idle"]
    /\ item = [w \in Workers |-> <<>>]
    /\ todo = [w \in Workers |-> <<>>]
    /\ page_count = 0 /\ file_handle = FALSE /\ wbuf = <<>> /\ disk = <<>>
    /\ run = "first" /\ lastAdd = NoAdd /\ admitted = <<>> /\ popped = <<>> /\ disk0 = <<>>
    /\ states_written = 0 /\ inflight = {}
    /\ phase = "open" /\ written = <<>> /\ on_disk = <<>> /\ loaded = <<>>
    /\ NoStorageCalls

\* await manager.write_metadata(start_url, config), up to its flush
call_write_metadata(u) ==
    /\ phase = "open" /\ Len(written) < MaxCalls
    /\ written' = Append(written, [op |-> "write_metadata", start_url |-> u])
    /\ storage_write(metadata_record(u))
    /\ phase' = "flush"
    /\ UNCHANGED <<storevars, cfgvars, schedvars, crawlvars, histvars, page_count, disk,
                   on_disk, loaded>>

\* a write_page that leaves every flush to close()
call_write_page_unflushed(p) ==
    /\ phase = "open" /\ Len(written) < MaxCalls
    /\ written' = Append(written, [op |-> "write_page", page |-> p])
    /\ storage_write(page_record(p))
    /\ page_count' = page_count + 1
    /\ phase' = "open"
    /\ UNCHANGED <<storevars, cfgvars, schedvars, crawlvars, histvars, disk, on_disk, loaded>>

\* await manager.write_page(page), up to its periodic flush
call_write_page(p) ==
    /\ phase = "open" /\ Len(written) < MaxCalls
    /\ written' = Append(written, [op |-> "write_page", page |-> p])
    /\ storage_write(page_record(p))
    /\ page_count' = page_count + 1
    /\ phase' = IF page_count' % flush_interval = 0 THEN "flush" ELSE "open"
    /\ UNCHANGED <<storevars, cfgvars, schedvars, crawlvars, histvars, disk, on_disk, loaded>>

\* await manager.write_state(visited, queue, filtered), up to its flush
call_write_state(st) ==
    /\ phase = "open" /\ Len(written) < MaxCalls
    /\ written' = Append(written, [op |-> "write_state", state |-> st])
    /\ storage_write(state_record(st.visited, st.queue, st.filtered))
    /\ phase' = "flush"
    /\ UNCHANGED <<storevars, cfgvars, schedvars, crawlvars, histvars, page_count, disk,
                   on_disk, loaded>>

\* the storage.flush() that ends the write call
call_flush ==
    /\ phase = "flush"
    /\ disk' = flushed /\ wbuf' = <<>>
    /\ phase' = "open"
    /\ UNCHANGED <<storevars, cfgvars, schedvars, crawlvars, histvars, page_count, file_handle,
                   written, on_disk, loaded>>

\* await manager.close()
call_close ==
    /\ phase = "open"
    /\ disk' = flushed /\ wbuf' = <<>> /\ file_handle' = FALSE
    /\ on_disk' = written
    /\ phase' = "closed"
    /\ UNCHANGED <<storevars, cfgvars, schedvars, crawlvars, histvars, page_count, written, loaded>>

\* the client dies with the manager open
client_crash ==
    /\ phase \in {"open", "flush"}
    /\ \E k \in 0..Len(wbuf), cut \in BOOLEAN :
         /\ cut => k < Len(wbuf)
         /\ disk' = crash_file(k, cut)
         /\ on_disk' = SubSeq(written, 1, Len(written) - Len(wbuf) + k)
    /\ wbuf' = <<>> /\ file_handle' = FALSE
    /\ phase' = "crashed"
    /\ UNCHANGED <<storevars, cfgvars, schedvars, crawlvars, histvars, page_count, written, loaded>>

\* a load() that empties the file it has read
call_load_consuming ==
    /\ phase \in {"closed", "crashed"} /\ Len(loaded) < 2
    /\ loaded' = Append(loaded, load(disk))
    /\ disk' = <<>>
    /\ UNCHANGED <<storevars, cfgvars, schedvars, crawlvars, histvars, page_count, file_handle,
                   wbuf, phase, written, on_disk>>

\* data = await manager2.load(), on a manager made for the same path
call_load ==
    /\ phase \in {"closed", "crashed"} /\ Len(loaded) < 2
    /\ loaded' = Append(loaded, load(disk))
    /\ UNCHANGED <<storevars, cfgvars, schedvars, crawlvars, histvars, ckptvars, phase,
                   written, on_disk>>

NextClient ==
    \/ \E u \in ClientStartUrls : call_write_metadata(u)
    \/ \E p \in ClientPages : call_write_page(p)
    \/ \E st \in ClientStates : call_write_state(st)
    \/ call_flush
    \/ call_close
    \/ client_crash
    \/ call_load

SpecClient == InitClient /\ [][NextClient]_vars

(* ------------------------------------------------------------------ *)
(* Tasks that call a storage backend directly                           *)
(* The crawl and the CheckpointManager client stand still; the tasks    *)
(* are the coroutines of Workers, each making one call at a time.       *)
(* ------------------------------------------------------------------ *)
restvars == <<cfgvars, schedvars, crawlvars, histvars, clientvars, page_count, file_handle, wbuf>>

\* the data of the n-th write() call, made on the i-th instance: one line
Line(n, i) == [type |-> "line", n |-> n, instance |-> i]

InitStorage ==
    /\ max_depth = 0 /\ max_pages = 1 /\ follow_external = FALSE
    /\ url_filter = NoFilter /\ resume = FALSE /\ flush_interval = 1
    /\ start_url = UA
    /\ queue = <<>> /\ visited = {} /\ filtered = {} /\ start_domain = None
    /\ pages = <<>>
    /\ pc = [w \in Workers |-> "idle"]
    /\ item = [w \in Workers |-> <<>>]
    /\ todo = [w \in Workers |-> <<>>]
    /\ page_count = 0 /\ file_handle = FALSE /\ wbuf = <<>> /\ disk = <<>>
    /\ run = "first" /\ lastAdd = NoAdd /\ admitted = <<>> /\ popped = <<>> /\ disk0 = <<>>
    /\ states_written = 0 /\ inflight = {}
    /\ phase = "none" /\ written = <<>> /\ on_disk = <<>> /\ loaded = <<>>
    /\ NoStorageCalls

(* ------------------------------------------------------------------ *)
(* S3Storage                                                            *)
(* The object is the sequence of the lines it holds; <<>> is no object. *)
(* ------------------------------------------------------------------ *)
InitS3 == InitStorage /\ mainpc = "s3"

\* S3Storage.write: self._buffer.append(data), without a suspension point
s3_write(w) ==
    /\ mainpc = "s3" /\ ~s3_closed /\ spc[w] = "idle" /\ started < MaxWrites
    /\ started' = started + 1
    /\ s3_buffer' = Append(s3_buffer, Line(started', 1))
    /\ issued' = Append(issued, Line(started', 1))
    /\ UNCHANGED <<restvars, disk, localvars, spc, sloc, s3_object, s3_closed>>

\* S3Storage.flush, up to "async with client as s3": nothing to do when the
\* buffer is empty
s3_flush(w) ==
    /\ mainpc = "s3" /\ ~s3_closed /\ spc[w] = "idle"
    /\ s3_buffer # <<>>
    /\ spc' = [spc EXCEPT ![w] = "join"]
    /\ UNCHANGED <<restvars, disk, localvars, sloc, started, issued, s3vars>>

\* ... data = "".join(self._buffer), up to "await self.exists()"
s3_join(w) ==
    /\ mainpc = "s3" /\ spc[w] = "join"
    /\ sloc' = [sloc EXCEPT ![w].data = s3_buffer]
    /\ spc' = [spc EXCEPT ![w] = "exists"]
    /\ UNCHANGED <<restvars, disk, localvars, started, issued, s3vars>>

\* S3Storage.exists: head_object answers, or raises and the result is False
ProbeOutcomes == {"answer", "error"}
s3_exists(object, outcome) == IF outcome = "error" THEN FALSE ELSE object # <<>>

\* ... the existence probe of flush: download next, or upload the buffer alone
s3_probe(w) ==
    /\ mainpc = "s3" /\ spc[w] = "exists"
    /\ \E outcome \in ProbeOutcomes :
         spc' = [spc EXCEPT ![w] = IF s3_exists(s3_object, outcome) THEN "get" ELSE "put"]
    /\ UNCHANGED <<restvars, disk, localvars, sloc, started, issued, s3vars>>

\* ... existing_data = the body of get_object
s3_get(w) ==
    /\ mainpc = "s3" /\ spc[w] = "get"
    /\ sloc' = [sloc EXCEPT ![w].existing = s3_object]
    /\ spc' = [spc EXCEPT ![w] = "put"]
    /\ UNCHANGED <<restvars, disk, localvars, started, issued, s3vars>>

\* ... put_object(Body = existing_data + data)
s3_put(w) ==
    /\ mainpc = "s3" /\ spc[w] = "put"
    /\ s3_object' = sloc[w].existing \o sloc[w].data
    /\ spc' = [spc EXCEPT ![w] = "clear"]
    /\ UNCHANGED <<restvars, disk, localvars, sloc, started, issued, s3_buffer, s3_closed>>

\* ... self._buffer.clear(), and flush returns
s3_clear(w) ==
    /\ mainpc = "s3" /\ spc[w] = "clear"
    /\ s3_buffer' = <<>>
    /\ sloc' = [sloc EXCEPT ![w] = NoLocals]
    /\ spc' = [spc EXCEPT ![w] = "idle"]
    /\ UNCHANGED <<restvars, disk, localvars, started, issued, s3_object, s3_closed>>

\* get_object or put_object raises: flush logs and re-raises, the buffer stays
s3_error(w) ==
    /\ mainpc = "s3" /\ spc[w] \in {"get", "put"}
    /\ sloc' = [sloc EXCEPT ![w] = NoLocals]
    /\ spc' = [spc EXCEPT ![w] = "idle"]
    /\ UNCHANGED <<restvars, disk, localvars, started, issued, s3vars>>

\* S3Storage.close once every task has returned: a last flush if the buffer
\* is not empty, run with no other task beside it
s3_close ==
    /\ mainpc = "s3" /\ ~s3_closed /\ \A w \in Workers : spc[w] = "idle"
    /\ started > 0
    /\ \E outcome \in ProbeOutcomes :
         s3_object' =
            IF s3_buffer = <<>> THEN s3_object
            ELSE (IF s3_exists(s3_object, outcome) THEN s3_object ELSE <<>>) \o s3_buffer
    /\ s3_buffer' = <<>>
    /\ s3_closed' = TRUE
    /\ UNCHANGED <<restvars, disk, localvars, callvars>>

NextS3 ==
    \/ \E w \in Workers : s3_write(w)
    \/ \E w \in Workers : s3_flush(w)
    \/ \E w \in Workers : s3_join(w)
    \/ \E w \in Workers : s3_probe(w)
    \/ \E w \in Workers : s3_get(w)
    \/ \E w \in Workers : s3_put(w)
    \/ \E w \in Workers : s3_clear(w)
    \/ \E w \in Workers : s3_error(w)
    \/ s3_close

SpecS3 == InitS3 /\ [][NextS3]_vars

(* ------------------------------------------------------------------ *)
(* LocalFileStorage under concurrent tasks                              *)
(* handles[h] is a file object opened on the path: what was written     *)
(* through it and has not reached the file yet, and whether it is open. *)
(* A handle that self._file_handle no longer refers to is closed when   *)
(* the interpreter finalizes it, at a moment the program does not       *)
(* control; its buffered data reaches the file then.                    *)
(* ------------------------------------------------------------------ *)
InitLocal == InitStorage /\ mainpc = "local"

NewHandle == [buf |-> <<>>, open |-> TRUE]

\* the file after open(path, mode="w"), which empties it
aiofiles_open_truncating(d) == <<>>

\* the file after aiofiles.open(path, mode="a"): created if missing, content kept
aiofiles_open(d) == d

\* LocalFileStorage.write, up to its first suspension point: the open when
\* self._file_handle is None, else the write on the handle
local_write(w) ==
    /\ mainpc = "local" /\ spc[w] = "idle" /\ started < MaxWrites
    /\ started' = started + 1
    /\ sloc' = [sloc EXCEPT ![w] = [NoLocals EXCEPT !.data = <<Line(started', instance)>>,
                                                     !.handle = cur]]
    /\ spc' = [spc EXCEPT ![w] = IF cur = 0 THEN "open" ELSE "write"]
    /\ UNCHANGED <<restvars, disk, s3vars, localvars, issued>>

\* ... aiofiles.open returns: self._file_handle = the new handle, whatever it
\* held, then the write on it begins
local_open(w) ==
    /\ mainpc = "local" /\ spc[w] = "open"
    /\ disk' = aiofiles_open(disk)
    /\ handles' = Append(handles, NewHandle)
    /\ cur' = Len(handles')
    /\ raced' = (raced \/ cur # 0)
    /\ sloc' = [sloc EXCEPT ![w].handle = cur']
    /\ spc' = [spc EXCEPT ![w] = "write"]
    /\ UNCHANGED <<restvars, s3vars, started, issued, instance, must_see>>

\* ... the write on the handle returns, and write() with it
local_write_done(w) ==
    /\ mainpc = "local" /\ spc[w] = "write"
    /\ handles' = [handles EXCEPT ![sloc[w].handle].buf = @ \o
                        [i \in 1..Len(sloc[w].data) |-> Text(sloc[w].data[i])]]
    /\ issued' = issued \o sloc[w].data
    /\ sloc' = [sloc EXCEPT ![w] = NoLocals]
    /\ spc' = [spc EXCEPT ![w] = "idle"]
    /\ UNCHANGED <<restvars, disk, s3vars, started, cur, instance, raced, must_see>>

\* LocalFileStorage.flush, up to "await self._file_handle.flush()"; with no
\* handle it returns at once
local_flush(w) ==
    /\ mainpc = "local" /\ spc[w] = "idle" /\ cur # 0
    /\ sloc' = [sloc EXCEPT ![w] = [NoLocals EXCEPT !.handle = cur, !.seen = Range(issued)]]
    /\ spc' = [spc EXCEPT ![w] = "flush"]
    /\ UNCHANGED <<restvars, disk, s3vars, localvars, started, issued>>

\* ... the flush of that handle returns, and flush() with it
local_flush_done(w) ==
    /\ mainpc = "local" /\ spc[w] = "flush"
    /\ disk' = append_all(disk, handles[sloc[w].handle].buf)
    /\ handles' = [handles EXCEPT ![sloc[w].handle].buf = <<>>]
    /\ must_see' = must_see \cup sloc[w].seen
    /\ sloc' = [sloc EXCEPT ![w] = NoLocals]
    /\ spc' = [spc EXCEPT ![w] = "idle"]
    /\ UNCHANGED <<restvars, s3vars, started, issued, cur, instance, raced>>

\* a handle that nothing refers to any more is finalized
finalize(h) ==
    /\ mainpc = "local"
    /\ h # cur /\ handles[h].open
    /\ \A w \in Workers : spc[w] \in {"write", "flush"} => sloc[w].handle # h
    /\ disk' = append_all(disk, handles[h].buf)
    /\ handles' = [handles EXCEPT ![h] = [buf |-> <<>>, open |-> FALSE]]
    /\ UNCHANGED <<restvars, s3vars, callvars, cur, instance, raced, must_see>>

\* LocalFileStorage.close once every task has returned: the handle is closed,
\* which writes out what it holds, and self._file_handle = None
local_close ==
    /\ mainpc = "local" /\ cur # 0 /\ \A w \in Workers : spc[w] = "idle"
    /\ disk' = append_all(disk, handles[cur].buf)
    /\ handles' = [handles EXCEPT ![cur] = [buf |-> <<>>, open |-> FALSE]]
    /\ cur' = 0
    /\ UNCHANGED <<restvars, s3vars, callvars, instance, raced, must_see>>

\* the next LocalFileStorage(path), made after the one before was closed
new_storage ==
    /\ mainpc = "local" /\ cur = 0 /\ \A w \in Workers : spc[w] = "idle"
    /\ handles # <<>> /\ instance < MaxInstances
    /\ instance' = instance + 1
    /\ UNCHANGED <<restvars, disk, s3vars, callvars, handles, cur, raced, must_see>>

\* LocalFileStorage.read: the lines of the file, none if it does not exist
local_read(d) == IF ~exists(d) THEN <<>> ELSE d

NextLocal ==
    \/ \E w \in Workers : local_write(w)
    \/ \E w \in Workers : local_open(w)
    \/ \E w \in Workers : local_write_done(w)
    \/ \E w \in Workers : local_flush(w)
    \/ \E w \in Workers : local_flush_done(w)
    \/ \E h \in DOMAIN handles : finalize(h)
    \/ local_close
    \/ new_storage

SpecLocal == InitLocal /\ [][NextLocal]_vars

(* ------------------------------------------------------------------ *)
(* What a log holds, read off its lines without replaying it           *)
(* ------------------------------------------------------------------ *)
is_record(line, type) == Len(line) = 1 /\ line[1].whole /\ line[1].rec.type = type

snapshot_lines(d) == {i \in DOMAIN d : is_record(d[i], "state")}
has_snapshot(d) == snapshot_lines(d) # {}
last_snapshot(d) ==
    d[CHOOSE i \in snapshot_lines(d) : \A j \in snapshot_lines(d) : j <= i][1].rec

is_page_line(line) == is_record(line, "page")
log_pages(d) ==
    LET ls == SelectSeq(d, is_page_line)
    IN  [i \in 1..Len(ls) |-> [url |-> ls[i][1].rec.url, depth |-> ls[i][1].rec.depth,
                               links |-> ls[i][1].rec.links]]

admitted_urls == {admitted[i][1] : i \in DOMAIN admitted}

(* ------------------------------------------------------------------ *)
(* Properties of the crawl                                             *)
(* ------------------------------------------------------------------ *)

\* C1: under every interleaving of the workers' add() calls a URL enters the
\* queue at most once in the lifetime of a Scheduler: the admissions hold no
\* URL twice, every admitted URL is in VisitedSet (one element per URL), a URL
\* restored as visited is never admitted, and an add() of a URL admitted
\* before is turned down as already visited.
AdmittedAtMostOnce ==
    /\ \A i, j \in DOMAIN admitted : admitted[i][1] = admitted[j][1] => i = j
    /\ admitted_urls \subseteq visited
    /\ (lastAdd.result \notin {"none", "queued"} /\ lastAdd.url \in admitted_urls)
          => lastAdd.result = "visited"
    /\ (resume /\ has_snapshot(disk0))
          => admitted_urls \cap Range(last_snapshot(disk0).visited) = {}

\* C1, witness: while both workers are adding links, a second add() of a URL
\* admitted earlier has just been turned down
RepeatedAddRejected ==
    /\ \A w \in Workers : pc[w] = "links"
    /\ lastAdd.result = "visited"
    /\ lastAdd.url \in admitted_urls

\* C2 as stated: under fair scheduling every crawl that starts, fresh or
\* resumed, reaches the point where crawl() has saved the final snapshot,
\* closed the log and returned
CrawlCompletes == (mainpc = "start") ~> (mainpc = "done")

\* C3 as stated: no queued entry is deeper than the configured max_depth
QueueWithinMaxDepth == \A i \in DOMAIN queue : queue[i][2] <= max_depth

\* C4: with follow_external = False every URL admitted by add() has the
\* authority of start_domain, and a candidate turned down for its authority is
\* in none of queue, visited, filtered; with follow_external = True no
\* candidate is turned down for its authority.
AdmittedInScope ==
    /\ ~follow_external =>
          \A i \in DOMAIN admitted : netloc(admitted[i][1]) = start_domain
    /\ lastAdd.result = "external" =>
          /\ ~follow_external
          /\ netloc(lastAdd.url) # start_domain
          /\ lastAdd.url \notin visited \cup filtered
          /\ \A i \in DOMAIN queue : queue[i][1] # lastAdd.url
    /\ (follow_external /\ netloc(lastAdd.url) # start_domain
          /\ lastAdd.result \notin {"none", "visited", "depth", "filtered"})
          => lastAdd.result = "queued" /\ lastAdd.url \in visited

\* C4, witness: with follow_external = False the link to o.test has been
\* offered and turned down while a.test pages are admitted
ExternalRejected ==
    /\ ~follow_external
    /\ lastAdd.url = UX /\ lastAdd.result = "external"
    /\ UB \in admitted_urls

\* C5 as stated: when crawl() has returned, one snapshot was appended, it is
\* the last record of the log and equals the Scheduler's state, nothing is
\* left in the write buffer and the storage is closed
FinalSnapshotIsLastRecord ==
    mainpc = "done" =>
        /\ states_written = 1
        /\ wbuf = <<>> /\ ~file_handle
        /\ disk # <<>>
        /\ is_record(disk[Len(disk)], "state")
        /\ LET s == disk[Len(disk)][1].rec IN
           /\ Range(s.visited) = visited
           /\ s.queue = queue
           /\ Range(s.filtered) = filtered

\* C6: the step that resumes from a log holding a snapshot leaves, before any
\* worker has run, results = the log's page records in log order and the
\* Scheduler's visited, filtered and queue equal to those of the last snapshot
ResumeRestoresLastSnapshot ==
    [][(mainpc = "start" /\ resume /\ mainpc' = "gather" /\ has_snapshot(disk)) =>
          /\ pages' = log_pages(disk)
          /\ visited' = Range(last_snapshot(disk).visited)
          /\ filtered' = Range(last_snapshot(disk).filtered)
          /\ queue' = last_snapshot(disk).queue
          /\ \A w \in Workers : pc'[w] = "loop"]_vars

\* C6, witness: a resumed run stands right after the restore with a restored
\* non-empty queue, a restored page and a restored filtered URL
ResumedFromSnapshot ==
    /\ run = "resumed" /\ mainpc = "gather" /\ has_snapshot(disk0)
    /\ \A w \in Workers : pc[w] = "loop"
    /\ queue # <<>> /\ queue = last_snapshot(disk0).queue
    /\ pages # <<>> /\ pages = log_pages(disk0)
    /\ filtered # {} /\ filtered = Range(last_snapshot(disk0).filtered)
    /\ visited = Range(last_snapshot(disk0).visited)

(* ------------------------------------------------------------------ *)
(* Properties of the checkpoint log                                     *)
(* ------------------------------------------------------------------ *)
is_page_call(c) == c.op = "write_page"
is_state_call(c) == c.op = "write_state"
is_metadata_call(c) == c.op = "write_metadata"

called_pages(cs) ==
    LET ps == SelectSeq(cs, is_page_call) IN [i \in 1..Len(ps) |-> ps[i].page]

\* what load() is to return for the calls cs, in this order, all on file
matches(data, cs) ==
    LET ss == SelectSeq(cs, is_state_call)
        ms == SelectSeq(cs, is_metadata_call)
    IN  /\ data.pages = called_pages(cs)
        /\ IF ss = <<>> THEN data.state = <<>>
           ELSE /\ Len(data.state) = 1
                /\ Range(data.state[1].visited) = ss[Len(ss)].state.visited
                /\ data.state[1].queue = ss[Len(ss)].state.queue
                /\ Range(data.state[1].filtered) = ss[Len(ss)].state.filtered
        /\ IF ms = <<>> THEN data.metadata = <<>>
           ELSE /\ Len(data.metadata) = 1
                /\ data.metadata[1].start_url = ms[Len(ms)].start_url

truncated(d) == d # <<>> /\ ~terminated(d[Len(d)])

\* C7: after any sequence of write_metadata, write_page and write_state calls
\* on a new log, under any flush_interval, followed by close(), load() returns
\* the written pages in write order, the last written snapshot and the
\* metadata last written
RoundTrip ==
    (phase = "closed" /\ loaded # <<>>) => matches(loaded[1], written)

\* C7, witness: metadata, two pages (one of depth 1) and a snapshot were
\* written with flush_interval = 2, the manager closed, the log loaded
RoundTripDone ==
    /\ phase = "closed" /\ loaded # <<>> /\ flush_interval = 2
    /\ Len(written) = 4
    /\ written[1].op = "write_metadata"
    /\ written[2] = [op |-> "write_page", page |-> Page(UA, 0)]
    /\ written[3] = [op |-> "write_page", page |-> Page(UB, 1)]
    /\ written[4].op = "write_state"

\* C8: load() of a log whose last line is a truncated record returns the
\* metadata, all pages in order and the latest snapshot of the complete
\* records before it
TruncatedTailSkipped ==
    (phase = "crashed" /\ loaded # <<>> /\ truncated(disk))
        => matches(loaded[1], on_disk)

\* C8, witness: a log of metadata, a page, a snapshot and a truncated last
\* line has been loaded
TruncatedLogLoaded ==
    /\ phase = "crashed" /\ loaded # <<>> /\ truncated(disk)
    /\ Len(disk) = 4 /\ Len(on_disk) = 3
    /\ loaded[1].metadata # <<>> /\ loaded[1].pages # <<>> /\ loaded[1].state # <<>>

\* C9: a load() leaves the log and the Scheduler as they were, and the second
\* load() of the same log returns what the first returned
ReplayIdempotent ==
    [][(Len(loaded') = Len(loaded) + 1) =>
          /\ disk' = disk
          /\ schedvars' = schedvars
          /\ Len(loaded') = 2 => loaded'[2] = loaded'[1]]_vars

\* C9, witness: a closed log holding metadata, pages and a snapshot has been
\* loaded twice
LoadedTwice ==
    /\ phase = "closed" /\ Len(loaded) = 2
    /\ loaded[1].metadata # <<>> /\ Len(loaded[1].pages) = 2 /\ loaded[1].state # <<>>

\* C10: when the log holds several snapshots, load() returns the last one in
\* log order, whatever the earlier ones are
LastSnapshotWins ==
    LET ss == SelectSeq(on_disk, is_state_call) IN
    (loaded # <<>> /\ Len(ss) >= 2) =>
        /\ Len(loaded[1].state) = 1
        /\ Range(loaded[1].state[1].visited) = ss[Len(ss)].state.visited
        /\ loaded[1].state[1].queue = ss[Len(ss)].state.queue
        /\ Range(loaded[1].state[1].filtered) = ss[Len(ss)].state.filtered

\* C10, witness: a log with two different snapshots, the first with a queued
\* URL, the last with none, has been loaded
TwoSnapshotsLoaded ==
    LET ss == SelectSeq(on_disk, is_state_call) IN
    /\ loaded # <<>> /\ Len(ss) = 2
    /\ ss[1].state.queue # <<>> /\ ss[2].state.queue = <<>>

(* ------------------------------------------------------------------ *)
(* Properties of the log of a crawl                                     *)
(* ------------------------------------------------------------------ *)
metadata_lines(d) == {i \in DOMAIN d : is_record(d[i], "metadata")}

\* C11 as stated: the log of a crawl that has returned holds exactly one
\* Metadata record and it is the first line, for a fresh run and for a run
\* started with resume = True alike
OneMetadataFirstLine ==
    mainpc = "done" =>
        /\ Cardinality(metadata_lines(disk)) = 1
        /\ is_record(disk[1], "metadata")

(* ------------------------------------------------------------------ *)
(* When the CheckpointManager flushes                                   *)
(* ------------------------------------------------------------------ *)
call_record(c) ==
    CASE c.op = "write_metadata" -> metadata_record(c.start_url)
      [] c.op = "write_page"     -> page_record(c.page)
      [] OTHER -> state_record(c.state.visited, c.state.queue, c.state.filtered)

\* the file that holds exactly the records of the calls cs, one per line
durable(cs) == [i \in 1..Len(cs) |-> <<Text(call_record(cs[i]))>>]

\* C16: a returned write_metadata or write_state leaves nothing unflushed; a
\* returned write_page leaves nothing unflushed exactly when the page counter
\* is a multiple of flush_interval, and a flush is pending after a write_page
\* only then; what is on file is always the records written minus the
\* unflushed ones; after close() every record written is on file
FlushDiscipline ==
    /\ page_count = Len(called_pages(written))
    /\ (phase = "open" /\ written # <<>>) =>
          IF written[Len(written)].op = "write_page"
          THEN (wbuf = <<>>) <=> (page_count % flush_interval = 0)
          ELSE wbuf = <<>>
    /\ (phase = "flush" /\ written[Len(written)].op = "write_page")
          => page_count % flush_interval = 0
    /\ phase \in {"open", "flush"}
          => disk = durable(SubSeq(written, 1, Len(written) - Len(wbuf)))
    /\ phase = "closed" => (wbuf = <<>> /\ ~file_handle /\ disk = durable(written))

\* C16, witness: with flush_interval = 2 a first page was written and left
\* unflushed by a snapshot-free history, the second write_page has flushed both
FlushedAtInterval ==
    /\ phase = "open" /\ flush_interval = 2 /\ page_count = 2
    /\ Len(written) = 2 /\ written[2].op = "write_page"
    /\ wbuf = <<>> /\ Len(disk) = 2

\* C17: while the workers run, every step that counts a page write counts one,
\* a worker goes to flush in a step exactly when that step makes the counter a
\* multiple of flush_interval, only one worker does, and the step that takes
\* it out of a flush that raised nothing has put everything written so far on
\* file
PeriodicFlushExactlyOnce ==
    [][(mainpc = "gather" /\ mainpc' = "gather") =>
          LET to_flush == {w \in Workers : pc[w] # "flush" /\ pc'[w] = "flush"}
              counted == page_count' = page_count + 1
          IN  /\ page_count' \in {page_count, page_count + 1}
              /\ Cardinality(to_flush) =
                    IF counted /\ page_count' % flush_interval = 0 THEN 1 ELSE 0
              /\ \A w \in Workers : (pc[w] = "flush" /\ pc'[w] = "links") =>
                    (disk' = append_all(disk, wbuf) /\ wbuf' = <<>>)]_vars

\* C17, witness: with flush_interval = 2 both workers have written a page;
\* worker 2's was counted without a flush and worker 2 is adding links, worker
\* 1's was counted second and worker 1 is about to flush the two records
SecondWriteFlushes ==
    /\ mainpc = "gather" /\ flush_interval = 2 /\ page_count = 2
    /\ pc[1] = "flush" /\ pc[2] = "links"
    /\ Len(wbuf) = 2

\* C18: the step in which the fetch, parse or extract of a worker's URL fails
\* takes that worker back to the top of its loop and changes nothing else:
\* results, queue, VisitedSet, FilteredSet and the log are as they were after
\* the pop, the URL is still visited and not queued, every other worker is
\* where it was and the pool keeps running
FailureConfined ==
    [][\A w \in Workers :
          (mainpc = "gather" /\ mainpc' = "gather" /\ pc[w] = "fetch" /\ pc'[w] = "loop") =>
              /\ pages' = pages /\ queue' = queue
              /\ visited' = visited /\ filtered' = filtered
              /\ disk' = disk /\ wbuf' = wbuf
              /\ item[w][1] \in visited'
              /\ \A i \in DOMAIN queue' : queue'[i][1] # item[w][1]
              /\ \A v \in Workers \ {w} : pc'[v] = pc[v] /\ item'[v] = item[v]]_vars

\* C18, witness: in a fresh run the page of a.test/ is in results and a
\* worker is still adding its links, while a.test/b, admitted and popped, has
\* failed: it is visited, not queued, in no worker's hands and has no page
FailedFetchSkipped ==
    /\ run = "first" /\ mainpc = "gather"
    /\ Len(pages) = 1 /\ pages[1].url = UA
    /\ UB \in visited
    /\ \A i \in DOMAIN queue : queue[i][1] # UB
    /\ \A w \in Workers : item[w] = <<>> \/ item[w][1] # UB
    /\ \E w \in Workers : pc[w] = "links" /\ todo[w] # <<>>

(* ------------------------------------------------------------------ *)
(* Aborted crawls                                                       *)
(* ------------------------------------------------------------------ *)
queued_urls(q) == {q[i][1] : i \in DOMAIN q}
page_urls(d) == {d[i][1].rec.url : i \in {j \in DOMAIN d : is_page_line(d[j])}}

\* C19 as stated: when a running crawl was aborted from outside, by a
\* cancellation of crawl() or by an interrupt, one snapshot of the Scheduler
\* as it stands was appended and flushed: it is the last record on file and
\* nothing is left unflushed
AbortSavesSnapshot ==
    (mainpc = "cancelled" \/ (mainpc = "done" /\ interrupted)) =>
        /\ states_written = 1
        /\ wbuf = <<>>
        /\ disk # <<>>
        /\ is_record(disk[Len(disk)], "state")
        /\ LET s == disk[Len(disk)][1].rec IN
           /\ Range(s.visited) = visited
           /\ s.queue = queue
           /\ Range(s.filtered) = filtered

\* C20: a URL that was popped and not yet fetched when the snapshot was taken
\* is in the snapshot's visited and not in its queue; in the run resumed from
\* that snapshot it is in no worker's hands, not queued, and has no page in
\* results or in the log
InFlightStaysVisited ==
    /\ (mainpc = "state_written" /\ interrupted) =>
          LET snap == wbuf[Len(wbuf)].rec IN
          \A u \in inflight :
              u \in Range(snap.visited) /\ u \notin queued_urls(snap.queue)
    /\ (run = "resumed" /\ has_snapshot(disk0)) =>
          \A u \in inflight :
              /\ \A w \in Workers : item[w] = <<>> \/ item[w][1] # u
              /\ u \notin queued_urls(queue)
              /\ \A i \in DOMAIN pages : pages[i].url # u
              /\ u \notin page_urls(disk)
              /\ \A i \in DOMAIN wbuf : ~(wbuf[i].rec.type = "page" /\ wbuf[i].rec.url = u)

\* C20, witness: in the run resumed from a snapshot taken while a URL was in
\* flight, another page has been fetched and its link to that URL has just
\* been turned down as already visited
InFlightOfferedAgain ==
    /\ run = "resumed" /\ has_snapshot(disk0) /\ mainpc = "gather"
    /\ Len(pages) > Len(log_pages(disk0))
    /\ lastAdd.url \in inflight /\ lastAdd.result = "visited"

(* ------------------------------------------------------------------ *)
(* Properties of the storage backends                                   *)
(* ------------------------------------------------------------------ *)

\* C12 as stated: after the final close() of an S3Storage the object holds
\* every record passed to write(), once each, in write order
S3HoldsEveryWrite == s3_closed => s3_object = issued

\* C13 as stated: every upload of a flush (and the one of close) leaves the
\* object equal to what it was just before, followed by the buffered writes
\* the flush took, whatever the existence probe answered
S3AppendOnly ==
    [][/\ \A w \in Workers :
            (spc[w] = "put" /\ spc'[w] = "clear") => s3_object' = s3_object \o sloc[w].data
       /\ (~s3_closed /\ s3_closed') => s3_object' = s3_object \o s3_buffer]_vars
\* C14 as stated: every write() that had returned when a flush() was called
\* is on the file once that flush() has returned
FlushedWritesVisible ==
    \A r \in must_see : \E i \in DOMAIN local_read(disk) : local_read(disk)[i] = <<Text(r)>>

lines_of(rs) == [i \in 1..Len(rs) |-> <<Text(rs[i])>>]

\* C15: as long as no handle was replaced while open (the instances are used
\* one after the other, each closed before the next writes), the file followed
\* by what the open handle still holds is the lines written, in write order,
\* and once the instance is closed a read returns exactly these lines
LocalAppendOnly ==
    ~raced =>
        /\ cur = 0 => local_read(disk) = lines_of(issued)
        /\ cur # 0 => append_all(disk, handles[cur].buf) = lines_of(issued)

\* C15, witness: a first instance wrote a line and was closed, a second one
\* wrote two more and was closed, and the file reads as the three lines
ReadAfterTwoInstances ==
    /\ ~raced /\ cur = 0 /\ instance = 2 /\ \A w \in Workers : spc[w] = "idle"
    /\ Len(issued) = 3
    /\ issued[1].instance = 1 /\ issued[2].instance = 2 /\ issued[3].instance = 2
    /\ Len(local_read(disk)) = 3

(* ------------------------------------------------------------------ *)
(* Resume without a snapshot                                            *)
(* ------------------------------------------------------------------ *)
\* the step of _resume_from_checkpoint on a log that holds records and no
\* snapshot
resumes_without_snapshot ==
    /\ mainpc = "start" /\ resume /\ mainpc' = "gather"
    /\ load(disk).state = <<>>
    /\ load(disk).metadata # <<>>

\* C21 as stated: a resume from a log without a FrontierSnapshot restores the
\* results from the PageRecords and seeds the Frontier with the start URL
\* recorded in the log's Metadata, at depth 0, into an otherwise empty
\* VisitedSet: the URLs of the restored pages are not marked visited
ResumeSeedsRecordedStartUrl ==
    [][resumes_without_snapshot =>
          LET data == load(disk) IN
          /\ pages' = data.pages
          /\ queue' = << <<data.metadata[1].start_url, 0>> >>
          /\ visited' = {data.metadata[1].start_url}]_vars

\* what the code does instead: it seeds the URL passed to crawl()
ResumeSeedsGivenUrl ==
    [][resumes_without_snapshot =>
          /\ pages' = load(disk).pages
          /\ queue' = << <<start_url, 0>> >>
          /\ visited' = {start_url}]_vars

\* a resumed run, seeded because the log had no snapshot, fetches again a URL
\* whose page was restored from the log
RestoredPageFetchedAgain ==
    /\ run = "resumed" /\ load(disk0).state = <<>>
    /\ \E i, j \in DOMAIN pages : i < j /\ pages[i].url = pages[j].url

(* ------------------------------------------------------------------ *)
(* A client of the Scheduler                                            *)
(* add() and get() calls in any order on a Scheduler of any             *)
(* configuration; the crawl, the checkpoint and the storage stand still *)
(* ------------------------------------------------------------------ *)
SchedulerUrls == {UA, UC, UX}

InitScheduler ==
    /\ max_depth \in 0..MaxDepthBound /\ max_pages = 1
    /\ follow_external \in BOOLEAN
    /\ url_filter \in {NoFilter, PdfFilter}
    /\ resume = FALSE /\ flush_interval = 1
    /\ start_url = UA
    /\ queue = <<>> /\ visited = {} /\ filtered = {} /\ start_domain = None
    /\ pages = <<>> /\ mainpc = "scheduler"
    /\ pc = [w \in Workers |-> "idle"]
    /\ item = [w \in Workers |-> <<>>]
    /\ todo = [w \in Workers |-> <<>>]
    /\ page_count = 0 /\ file_handle = FALSE /\ wbuf = <<>> /\ disk = <<>>
    /\ run = "first" /\ lastAdd = NoAdd /\ admitted = <<>> /\ popped = <<>> /\ disk0 = <<>>
    /\ states_written = 0 /\ inflight = {}
    /\ phase = "none" /\ written = <<>> /\ on_disk = <<>> /\ loaded = <<>>
    /\ NoStorageCalls

\* await scheduler.add(url, depth)
call_add(u, d) ==
    /\ mainpc = "scheduler"
    /\ add(u, d)
    /\ UNCHANGED <<storevars, clientvars, cfgvars, crawlvars, ckptvars,
                   run, popped, disk0, states_written, inflight>>

\* result = await scheduler.get(), the result kept in item[1]
call_get ==
    /\ mainpc = "scheduler"
    /\ get(1)
    /\ UNCHANGED <<storevars, clientvars, cfgvars, visited, filtered, start_domain,
                   pages, mainpc, pc, todo, ckptvars,
                   run, lastAdd, admitted, disk0, states_written, inflight>>

NextScheduler ==
    \/ \E u \in SchedulerUrls, d \in 0..MaxDepthBound : call_add(u, d)
    \/ call_get

SpecScheduler == InitScheduler /\ [][NextScheduler]_vars

\* C23: get() returns the admitted entries in the order of their admission,
\* each once and with the depth it was admitted at: the entries returned so
\* far, followed by those still queued, are the admitted entries, and each
\* get() hands out the head of the queue; a get() on an empty queue returns
\* None and changes nothing in the Scheduler
FifoGet ==
    /\ [](popped \o queue = admitted)
    /\ [][/\ popped' # popped =>
               /\ item'[1] = Head(queue)
               /\ popped' = Append(popped, Head(queue))
               /\ queue' = Tail(queue)
               /\ UNCHANGED <<visited, filtered, start_domain, admitted>>
          /\ (queue = <<>> /\ lastAdd' = lastAdd) =>
               /\ item'[1] = <<>>
               /\ UNCHANGED <<schedvars, admitted, popped>>]_vars

\* C23, witness: two entries admitted at different depths were returned in
\* the order of their admission, and a further get() found the queue empty
GetDrainedQueue ==
    /\ mainpc = "scheduler"
    /\ Len(popped) = 2 /\ popped[1][2] # popped[2][2]
    /\ popped = admitted
    /\ queue = <<>> /\ item[1] = <<>>

\* C29: the first add() assigns StartDomain from the authority of its URL,
\* whether or not it then admits the URL, and no later add() or get()
\* changes it
StartDomainSetOnce ==
    [][IF start_domain = None
       THEN IF lastAdd' # lastAdd
            THEN start_domain' = netloc(lastAdd'.url)
            ELSE start_domain' = None
       ELSE start_domain' = start_domain]_vars

\* C29, witness: nothing was ever admitted, the first add() (of a URL of
\* a.test, turned down for its depth or by the filter) set the StartDomain,
\* and a later add() of a URL of o.test was judged external against it
FirstAddRejectedSetDomain ==
    /\ mainpc = "scheduler"
    /\ admitted = <<>> /\ visited = {}
    /\ start_domain = "a.test"
    /\ lastAdd.result = "external" /\ netloc(lastAdd.url) = "o.test"

\* C30: an add() that rejects leaves the queue and the VisitedSet as they
\* were, and adds the URL to the FilteredSet exactly when the filter predicate
\* rejected it; so a URL just rejected for its depth is not visited, and
\* offering it again at a depth within max_depth is not turned down as
\* visited or too deep
RejectedAddChangesNothing ==
    /\ [][(lastAdd' # lastAdd /\ lastAdd'.result # "queued") =>
             /\ queue' = queue /\ visited' = visited
             /\ filtered' = IF lastAdd'.result = "filtered"
                            THEN filtered \cup {lastAdd'.url} ELSE filtered
             /\ lastAdd'.result \in {"visited", "depth", "external"} =>
                    filtered' = filtered]_vars
    /\ [](lastAdd.result = "depth" =>
             /\ lastAdd.url \notin visited
             /\ admission(lastAdd.url, max_depth, start_domain) \notin {"visited", "depth"})
    /\ [][(lastAdd.result = "depth" /\ lastAdd'.url = lastAdd.url
              /\ lastAdd'.depth <= max_depth /\ lastAdd' # lastAdd) =>
             lastAdd'.result \notin {"visited", "depth"}]_vars

\* C30, witness: a URL that the filter would let through was rejected for its
\* depth while other entries were queued; it is neither visited nor filtered,
\* and the same add() at depth max_depth would queue it
DepthRejectedStillAdmissible ==
    /\ mainpc = "scheduler"
    /\ lastAdd.result = "depth" /\ queue # <<>> /\ filtered # {}
    /\ lastAdd.url \notin visited \cup filtered
    /\ admission(lastAdd.url, max_depth, start_domain) = "queued"

(* ------------------------------------------------------------------ *)
(* A client of CombinedFilter (tests/test_filters.py): should_crawl(url) *)
(* on a filter of any pattern sets and allow-list                       *)
(* ------------------------------------------------------------------ *)
FilterDirs == {"blog", "private", "docs"}
Filters ==
    { CombinedFilter(include, exclude, skip, allowed) :
        include \in SUBSET {Glob(d) : d \in FilterDirs},
        exclude \in SUBSET {Glob(d) : d \in FilterDirs},
        skip \in {{}, {"pdf"}},
        allowed \in {{}, {"a.test"}, {"test", "blog"}} }
FilterUrls ==
    { DeepUrl("a.test", <<>>, "/about", ""),
      DeepUrl("a.test", <<"blog">>, "/blog/post", ""),
      DeepUrl("a.test", <<"blog">>, "/blog/file.pdf", "pdf"),
      DeepUrl("a.test", <<"blog", "private">>, "/blog/private/post", ""),
      DeepUrl("a.test", <<"docs", "private">>, "/docs/private/file.pdf", "pdf"),
      DeepUrl("blog", <<"docs">>, "/docs/post", ""),
      DeepUrl("blog.a.test", <<"blog">>, "/blog/post", ""),
      DeepUrl("xa.test", <<"blog">>, "/blog/post", "") }

InitFilter ==
    /\ max_depth = 0 /\ max_pages = 1 /\ follow_external = FALSE
    /\ url_filter \in Filters
    /\ resume = FALSE /\ flush_interval = 1
    /\ start_url = UA
    /\ queue = <<>> /\ visited = {} /\ filtered = {} /\ start_domain = None
    /\ pages = <<>> /\ mainpc = "filter"
    /\ pc = [w \in Workers |-> "idle"]
    /\ item = [w \in Workers |-> <<>>]
    /\ todo = [w \in Workers |-> <<>>]
    /\ page_count = 0 /\ file_handle = FALSE /\ wbuf = <<>> /\ disk = <<>>
    /\ run = "first" /\ lastAdd = NoAdd /\ admitted = <<>> /\ popped = <<>> /\ disk0 = <<>>
    /\ states_written = 0 /\ inflight = {}
    /\ phase = "none" /\ written = <<>> /\ on_disk = <<>> /\ loaded = <<>>
    /\ NoStorageCalls

\* url_filter.should_crawl(url), the answer kept in lastAdd
call_should_crawl(u) ==
    /\ mainpc = "filter"
    /\ lastAdd' = [url |-> u, depth |-> 0,
                   result |-> IF combined_should_crawl(url_filter[1], u)
                              THEN "crawl" ELSE "filtered"]
    /\ UNCHANGED <<storevars, clientvars, cfgvars, schedvars, crawlvars, ckptvars,
                   run, admitted, popped, disk0, states_written, inflight>>

NextFilter == \E u \in FilterUrls : call_should_crawl(u)

SpecFilter == InitFilter /\ [][NextFilter]_vars

\* the URL matches one of the filter's include / exclude patterns
included(f, u) == \E p \in f.include_patterns : match_pattern(u, p)
excluded(f, u) == \E p \in f.exclude_patterns : match_pattern(u, p)

\* C24: a URL that matches an include pattern and an exclude pattern of the
\* filter is rejected, whatever the URL and the pattern sets
ExclusionOverridesInclusion ==
    mainpc = "filter" =>
        /\ \A u \in FilterUrls :
              (included(url_filter[1], u) /\ excluded(url_filter[1], u))
                  => ~should_crawl(url_filter[1], u)
        /\ (lastAdd.result # "none" /\ included(url_filter[1], lastAdd.url)
                /\ excluded(url_filter[1], lastAdd.url))
              => lastAdd.result = "filtered"

\* C24, witness: should_crawl answered False for a URL that matches an
\* include pattern and an exclude pattern, and whose extension is not skipped
IncludedAndExcludedRejected ==
    /\ mainpc = "filter" /\ lastAdd.result = "filtered"
    /\ included(url_filter[1], lastAdd.url) /\ excluded(url_filter[1], lastAdd.url)
    /\ lastAdd.url.ext \notin url_filter[1].skip_extensions

(* ------------------------------------------------------------------ *)
(* A fetched page: results, log and links                               *)
(* ------------------------------------------------------------------ *)
\* the record was handed to the storage: it is in the handle's buffer b or
\* in the file d
appended(r, d, b) ==
    \/ \E i \in DOMAIN b : b[i] = Text(r)
    \/ \E i \in DOMAIN d : \E k \in DOMAIN d[i] : d[i][k] = Text(r)

\* worker w is done with the URL whose page it appended to results
finishes_page(w) ==
    /\ pc[w] \in {"write_page", "count", "flush", "links"}
    /\ pc'[w] = "loop"

\* C25 as stated: when a worker is done with a URL whose page it appended to
\* results, the page's record has been appended to the checkpoint log and
\* add() has been called for every link of the page, storage errors or not
PageLoggedAndLinksOffered ==
    [][\A w \in Workers :
          finishes_page(w) =>
              /\ appended(page_record(Page(item[w][1], item[w][2])), disk', wbuf')
              /\ pc[w] = "links" /\ todo[w] = <<>>]_vars

\* the same, for the pages whose write_page raised nothing
PageLoggedWhenStorageWorks ==
    [][\A w \in Workers :
          (finishes_page(w) /\ pc[w] = "links") =>
              /\ appended(page_record(Page(item[w][1], item[w][2])), disk', wbuf')
              /\ todo[w] = <<>>]_vars

\* a page is in results, its links were never offered to the Scheduler and
\* its record is not in the log, and the crawl has ended
PageWithoutRecordAndLinks ==
    /\ run = "first" /\ mainpc = "done"
    /\ pages # <<>> /\ pages[1].url = UA
    /\ visited = {UA}
    /\ ~appended(page_record(pages[1]), disk, wbuf)

(* ------------------------------------------------------------------ *)
(* End to end: a crawl of the second site with max_depth = 1 and a page *)
(* budget of 10, fetch(a) and fetch(b) answering, under fair scheduling *)
(* ------------------------------------------------------------------ *)
InitE2E ==
    /\ max_depth = 1 /\ max_pages = 10
    /\ follow_external = FALSE /\ url_filter = NoFilter /\ resume = FALSE
    /\ flush_interval \in 1..MaxFlushInterval
    /\ start_url = EA
    /\ queue = <<>> /\ visited = {} /\ filtered = {} /\ start_domain = None
    /\ pages = <<>> /\ mainpc = "start"
    /\ pc = [w \in Workers |-> "idle"]
    /\ item = [w \in Workers |-> <<>>]
    /\ todo = [w \in Workers |-> <<>>]
    /\ page_count = 0 /\ file_handle = FALSE /\ wbuf = <<>> /\ disk = <<>>
    /\ run = "first" /\ lastAdd = NoAdd /\ admitted = <<>> /\ popped = <<>> /\ disk0 = <<>>
    /\ states_written = 0 /\ inflight = {}
    /\ phase = "crawl" /\ written = <<>> /\ on_disk = <<>> /\ loaded = <<>>
    /\ NoStorageCalls

\* the fetch of c fails: the scenario fixes the answers for a and b only
fetch_c_fails(w) ==
    /\ pc[w] = "fetch" /\ item[w][1] = EC
    /\ fetch_fail(w)

e2e_worker(w) ==
    \/ worker_loop(w) \/ worker_wake(w)
    \/ fetch_ok(w) \/ fetch_c_fails(w)
    \/ write_page(w) \/ write_page_count(w) \/ flush_page(w)
    \/ add_link(w) \/ links_done(w)

e2e_crawl ==
    \/ write_metadata \/ seed
    \/ write_state \/ flush_state \/ close

NextE2E == e2e_crawl \/ \E w \in Workers : e2e_worker(w)

SpecE2E ==
    /\ InitE2E /\ [][NextE2E]_vars
    /\ WF_vars(e2e_crawl)
    /\ \A w \in Workers : WF_vars(e2e_worker(w))

\* C22: in the end-to-end scenario, under every interleaving of the workers,
\* the admissions are a, then b and c at depth 1; every offer of the
\* back-link to a is rejected as already visited; the crawl ends, and it ends
\* with visited_count = 3 and at most 3 results
EndToEnd ==
    /\ [](\E n \in 0..3 : admitted = SubSeq(<< <<EA, 0>>, <<EB, 1>>, <<EC, 1>> >>, 1, n))
    /\ []((lastAdd.url = EA /\ lastAdd.depth > 0) => lastAdd.result = "visited")
    /\ [](mainpc = "done" =>
             /\ visited = {EA, EB, EC} /\ Cardinality(visited) = 3
             /\ Len(pages) <= 3)
    /\ <>(mainpc = "done")

\* C22, witness: the crawl has ended with the three pages in results, the
\* last add() being the back-link to a found on b, rejected as visited
EndToEndDone ==
    /\ mainpc = "done" /\ start_url = EA
    /\ Len(pages) = 3 /\ Cardinality(visited) = 3
    /\ lastAdd = [url |-> EA, depth |-> 2, result |-> "visited"]

(* ------------------------------------------------------------------ *)
(* Order of the page records                                            *)
(* ------------------------------------------------------------------ *)
\* a is b with some elements left out
RECURSIVE is_subsequence(_, _)
is_subsequence(a, b) ==
    IF a = <<>> THEN TRUE
    ELSE IF b = <<>> THEN FALSE
    ELSE IF Head(a) = Head(b) THEN is_subsequence(Tail(a), Tail(b))
    ELSE is_subsequence(a, Tail(b))

urls_of(ps) == [i \in DOMAIN ps |-> ps[i].url]

\* C26 as stated: under any interleaving of the workers the page records of
\* the checkpoint log (written through the handle, flushed or not) are in the
\* order in which their pages stand in results
LogOrderIsResultsOrder ==
    mainpc \in {"gather", "state_written", "state_flushed", "done"} =>
        is_subsequence(urls_of(log_pages(append_all(disk, wbuf))), urls_of(pages))

\* the crawl has ended, and the second and third page of results stand in the
\* flushed log in the other order
LogOrderReversed ==
    /\ mainpc = "done" /\ run = "first" /\ Len(pages) = 3
    /\ urls_of(log_pages(disk)) = <<pages[1].url, pages[3].url, pages[2].url>>

\* C27: in a fresh crawl the seed is the only entry admitted at depth 0, and
\* every entry admitted at a depth d > 0 is a link of a page in results whose
\* entry, of depth d - 1, was popped from the Frontier
AdmittedBelowFetchedPage ==
    run = "first" =>
        \A i \in DOMAIN admitted :
            IF admitted[i][2] = 0
            THEN i = 1 /\ admitted[i][1] = start_url
            ELSE \E j \in DOMAIN pages :
                    /\ pages[j].depth = admitted[i][2] - 1
                    /\ admitted[i][1] \in Range(pages[j].links)
                    /\ <<pages[j].url, pages[j].depth>> \in Range(popped)

\* C27, witness: a fresh crawl has admitted an entry at depth 2, found on a
\* page of depth 1 that was itself found on the seed's page
AdmittedAtDepthTwo ==
    /\ run = "first" /\ mainpc = "gather"
    /\ \E i \in DOMAIN admitted : admitted[i][2] = 2
    /\ \E j, k \in DOMAIN pages : pages[j].depth = 0 /\ pages[k].depth = 1

(* ------------------------------------------------------------------ *)
(* StartDomain after a resume                                           *)
(* ------------------------------------------------------------------ *)
\* the run resumed from a log that holds a snapshot, past the restore
resumed_from_snapshot ==
    /\ run = "resumed" /\ mainpc # "start"
    /\ load(disk0).state # <<>>

\* C28 as stated: after a resume from a snapshot the StartDomain is the one
\* of the run that wrote the snapshot, the authority of the URL that run was
\* seeded with (UA, the URL of every first run), whatever the configuration
ResumeRestoresStartDomain ==
    resumed_from_snapshot => start_domain = netloc(UA)

\* the same, for crawls that do not follow external links
ResumeRestoresStartDomainInternal ==
    (resumed_from_snapshot /\ ~follow_external) => start_domain = netloc(UA)

\* a run resumed from a snapshot takes the authority of a foreign URL of the
\* VisitedSet for its StartDomain
ForeignStartDomain ==
    /\ resumed_from_snapshot /\ follow_external
    /\ start_domain = netloc(UX) /\ UA \in visited

\* the four checks of the filter predicate, each on its own
passes_extension(f, u) == u.ext \notin f.skip_extensions
passes_domain(f, u) ==
    f.allowed_domains # {} =>
        \E a \in f.allowed_domains : u.netloc = a \/ endswith_dot(u.netloc, a)
passes_include(f, u) == f.include_patterns # {} => included(f, u)
passes_exclude(f, u) == ~excluded(f, u)

\* C31: CombinedFilter.should_crawl(url) is true exactly when the URL passes
\* the extension check, the domain allow-list, the include patterns and the
\* exclude patterns, a conjunction that no order of evaluation changes
VerdictIsConjunctionOfChecks ==
    mainpc = "filter" =>
        /\ \A u \in FilterUrls :
              combined_should_crawl(url_filter[1], u) <=>
                  /\ passes_exclude(url_filter[1], u)
                  /\ passes_include(url_filter[1], u)
                  /\ passes_domain(url_filter[1], u)
                  /\ passes_extension(url_filter[1], u)
        /\ lastAdd.result # "none" =>
              ((lastAdd.result = "crawl") <=>
                  /\ passes_extension(url_filter[1], lastAdd.url)
                  /\ passes_domain(url_filter[1], lastAdd.url)
                  /\ passes_include(url_filter[1], lastAdd.url)
                  /\ passes_exclude(url_filter[1], lastAdd.url))

\* C31, witness: with an allow-list, include patterns, exclude patterns and a
\* skipped extension configured, a URL of a subdomain of an allowed domain
\* that passes the domain check and the include patterns was rejected, by the
\* exclude patterns alone
RejectedByLaterCheck ==
    /\ mainpc = "filter" /\ lastAdd.result = "filtered"
    /\ url_filter[1].allowed_domains # {} /\ url_filter[1].include_patterns # {}
    /\ url_filter[1].skip_extensions # {}
    /\ lastAdd.url.netloc \notin url_filter[1].allowed_domains
    /\ passes_domain(url_filter[1], lastAdd.url)
    /\ passes_include(url_filter[1], lastAdd.url)
    /\ passes_extension(url_filter[1], lastAdd.url)
    /\ ~passes_exclude(url_filter[1], lastAdd.url)

(* ------------------------------------------------------------------ *)
(* Where a visited URL is                                               *)
(* ------------------------------------------------------------------ *)
\* the workers whose fetch is under way, and the URLs they hold
fetching == {w \in Workers : pc[w] = "fetch"}
in_flight_urls == {item[w][1] : w \in fetching}
completed_urls == {pages[i].url : i \in DOMAIN pages}
popped_urls == {popped[i][1] : i \in DOMAIN popped}

\* C32: in a fresh crawl every URL that is queued, in flight or completed is
\* visited, and a visited URL is in one of these places at most (it has failed
\* when it is in none after its pop): it is queued once, or in flight at one
\* worker, or has exactly one PageRecord in results; no URL is popped twice
VisitedInOnePlace ==
    run = "first" =>
        /\ queued_urls(queue) \cup in_flight_urls \cup completed_urls \subseteq visited
        /\ queued_urls(queue) \cap in_flight_urls = {}
        /\ queued_urls(queue) \cap completed_urls = {}
        /\ in_flight_urls \cap completed_urls = {}
        /\ \A i, j \in DOMAIN queue : queue[i][1] = queue[j][1] => i = j
        /\ \A v, w \in fetching : item[v][1] = item[w][1] => v = w
        /\ \A i, j \in DOMAIN pages : pages[i].url = pages[j].url => i = j
        /\ \A i, j \in DOMAIN popped : popped[i][1] = popped[j][1] => i = j
        /\ visited = queued_urls(queue) \cup popped_urls
        /\ queued_urls(queue) \cap popped_urls = {}

\* C32, witness: a fresh crawl with two pages in results, a third URL in
\* flight at one worker and a fourth one queued
OneUrlInEachPlace ==
    /\ run = "first" /\ mainpc = "gather"
    /\ Cardinality(completed_urls) = 2
    /\ Cardinality(in_flight_urls) = 1 /\ Cardinality(queued_urls(queue)) = 1
    /\ Cardinality(visited) = 4

\* C33: in a fresh crawl with N workers results never holds more than
\* max_pages + N - 1 pages, a URL is popped only while results holds fewer
\* than max_pages pages, and a worker that finds max_pages pages or more at
\* the top of its loop leaves
BoundedOvershoot ==
    /\ [](run = "first" => Len(pages) <= max_pages + Cardinality(Workers) - 1)
    /\ [][(run = "first" /\ Len(popped') > Len(popped)) => Len(pages) < max_pages]_vars
    /\ [][\A w \in Workers :
             (run = "first" /\ mainpc = "gather" /\ mainpc' = "gather"
                 /\ pc[w] = "loop" /\ Len(pages) >= max_pages /\ pc'[w] # "loop")
                 => (pc'[w] = "exit" /\ queue' = queue /\ popped' = popped)]_vars

\* C33, witness: in a fresh crawl both workers popped a URL while results was
\* one page short of max_pages, and results now holds max_pages + 1 pages
OvershootByOne ==
    /\ run = "first" /\ mainpc = "gather"
    /\ Len(pages) = max_pages + 1


\* every worker has left its loop
all_exited == \A w \in Workers : pc[w] = "exit"

\* C34: whenever all workers have exited, results holds max_pages pages or
\* more or the queue is empty; the snapshot written after gather() records
\* that queue, so in the log of a first run that returned uninterrupted the
\* last snapshot has an empty queue unless the page budget was reached
NothingQueuedUnlessBudgetReached ==
    /\ [](all_exited => (Len(pages) >= max_pages \/ queue = <<>>))
    /\ [][(mainpc = "gather" /\ mainpc' = "state_written") =>
             /\ queue' = queue /\ pages' = pages
             /\ wbuf'[Len(wbuf')].rec.queue = queue]_vars
    /\ []((mainpc = "done" /\ run = "first" /\ ~interrupted) =>
             LET s == load(disk).state IN
             /\ s # <<>>
             /\ (s[1].queue = <<>> \/ Len(pages) >= max_pages))

\* C34, witness: one worker left through the idle re-check while the other
\* was in flight; the other has since enqueued links, and the crawl
\* nevertheless ended with an empty queue below the page budget
ExitedBeforeLinksEnqueued ==
    /\ mainpc = "gather" /\ run = "first"
    /\ \E w, v \in Workers :
          /\ pc[w] = "exit" /\ pc[v] = "loop"
          /\ queue # <<>> /\ Len(pages) < max_pages

\* C34, witness of the end: all workers exited below the budget with the
\* queue empty, after more than one page
EndedWithEmptyQueue ==
    /\ mainpc = "done" /\ run = "first" /\ ~interrupted
    /\ Len(pages) < max_pages /\ Len(pages) > 0
    /\ queue = <<>>


(* ------------------------------------------------------------------ *)
(* Resume after a crawl that returned                                   *)
(* ------------------------------------------------------------------ *)
\* the log the resumed run started from is the log of a crawl() that
\* returned: every line is a whole record and the last one is the snapshot
completed_log(d) ==
    /\ d # <<>>
    /\ \A i \in DOMAIN d : json_ok(d[i])
    /\ is_record(d[Len(d)], "state")

resumed_after_completion == run = "resumed" /\ mainpc # "start" /\ completed_log(disk0)

\* the URLs the first run popped: visited in its snapshot and no longer queued
fetched_before == LET s == last_snapshot(disk0) IN Range(s.visited) \ queued_urls(s.queue)

page_lines(d) == {j \in DOMAIN d : is_page_line(d[j])}

\* C35: in a run resumed from the log of a crawl that returned, no URL the
\* first run popped is popped again, no URL has two pages in results or two
\* page records in the log, results starts with the pages of the log, and a
\* URL is popped only while results, restored pages included, holds fewer than
\* max_pages pages
ResumeFetchesNothingTwice ==
    /\ [](resumed_after_completion =>
             /\ popped_urls \cap fetched_before = {}
             /\ \A w \in Workers : item[w] # <<>> => item[w][1] \notin fetched_before
             /\ Cardinality(completed_urls) = Len(pages)
             /\ Cardinality(page_urls(disk)) = Cardinality(page_lines(disk))
             /\ Len(pages) >= Len(load(disk0).pages)
             /\ SubSeq(pages, 1, Len(load(disk0).pages)) = load(disk0).pages)
    /\ [][(resumed_after_completion /\ Len(popped') > Len(popped)) =>
             Len(pages) < max_pages]_vars

\* C35, witness: the first run returned with one page and URLs left in the
\* queue; the resumed run restored that page, fetched one more and wrote it
ResumedRunAddedPage ==
    /\ resumed_after_completion /\ mainpc = "done"
    /\ load(disk0).pages # <<>>
    /\ Len(pages) = Len(load(disk0).pages) + 1
    /\ Len(pages) = max_pages
    /\ Cardinality(page_lines(disk)) = Len(pages)


(* ------------------------------------------------------------------ *)
(* Appending to a log that ends in a truncated line                     *)
(* ------------------------------------------------------------------ *)
resumed_on_truncated_log == run = "resumed" /\ truncated(disk0) /\ mainpc = "done"

\* C36 as stated: when a run that resumed on a log ending in a truncated line
\* has returned, a replay of the log recovers every record the run appended:
\* each page it added to results and its final snapshot of the Scheduler
AppendedRecordsRecovered ==
    resumed_on_truncated_log =>
        LET d == load(disk) IN
        /\ \A i \in DOMAIN pages : pages[i] \in Range(d.pages)
        /\ d.state # <<>>
        /\ Range(d.state[1].visited) = visited
        /\ d.state[1].queue = queue
        /\ Range(d.state[1].filtered) = filtered

\* C36: the first record appended after the truncated line shares its line,
\* which json.loads rejects; here that record was the run's only one, its
\* final snapshot, and the replay finds no snapshot or an older one
FinalSnapshotNotRecovered ==
    /\ resumed_on_truncated_log
    /\ Len(pages) = Len(load(disk0).pages)
    /\ ~json_ok(disk[Len(disk)])
    /\ load(disk).state = load(disk0).state

\* C36: the first appended record was a page: it is in results and not among
\* the pages a replay recovers, while the records after it are recovered
FirstAppendedPageNotRecovered ==
    /\ resumed_on_truncated_log
    /\ \E i \in DOMAIN pages : pages[i] \notin Range(load(disk).pages)
    /\ is_record(disk[Len(disk)], "state")

\* C36: on a log whose last line is whole the resumed run's records are all
\* recovered by a replay
AppendedRecordsRecoveredAfterWholeLine ==
    (run = "resumed" /\ disk0 # <<>> /\ ~truncated(disk0) /\ mainpc = "done") =>
        LET d == load(disk) IN
        /\ \A i \in DOMAIN pages : pages[i] \in Range(d.pages)
        /\ d.state # <<>>
        /\ Range(d.state[1].visited) = visited
        /\ d.state[1].queue = queue


(* ------------------------------------------------------------------ *)
(* A fresh crawl with max_concurrency = 1 on the third site             *)
(* ------------------------------------------------------------------ *)
InitSingle ==
    /\ max_depth \in 0..MaxSingleDepth
    /\ max_pages \in 1..MaxSinglePages
    /\ follow_external = FALSE /\ url_filter = NoFilter /\ resume = FALSE
    /\ flush_interval \in {1, MaxFlushInterval}
    /\ start_url = SA
    /\ queue = <<>> /\ visited = {} /\ filtered = {} /\ start_domain = None
    /\ pages = <<>> /\ mainpc = "start"
    /\ pc = [w \in Workers |-> "idle"]
    /\ item = [w \in Workers |-> <<>>]
    /\ todo = [w \in Workers |-> <<>>]
    /\ page_count = 0 /\ file_handle = FALSE /\ wbuf = <<>> /\ disk = <<>>
    /\ run = "first" /\ lastAdd = NoAdd /\ admitted = <<>> /\ popped = <<>> /\ disk0 = <<>>
    /\ states_written = 0 /\ inflight = {}
    /\ phase = "crawl" /\ written = <<>> /\ on_disk = <<>> /\ loaded = <<>>
    /\ NoStorageCalls

\* the flush of write_metadata, scheduler.add(start_url, depth=0), and the
\* creation of the worker tasks for range(1)
seed_single ==
    /\ mainpc = "metadata_written"
    /\ disk' = flushed /\ wbuf' = <<>>
    /\ add(start_url, 0)
    /\ pc' = [w \in Workers |-> IF w = 1 THEN "loop" ELSE "idle"]
    /\ mainpc' = "gather"
    /\ UNCHANGED <<storevars, clientvars, cfgvars, pages, item, todo, page_count, file_handle,
                   run, popped, disk0, states_written, inflight>>

\* gather() of the one worker returned: _save_checkpoint_state up to its flush
write_state_single ==
    /\ mainpc = "gather" /\ pc[1] = "exit"
    /\ storage_write(state_record(visited, queue, filtered))
    /\ states_written' = states_written + 1
    /\ mainpc' = "state_written"
    /\ UNCHANGED <<storevars, clientvars, cfgvars, schedvars, pages, pc, item, todo, page_count, disk,
                   run, lastAdd, admitted, popped, disk0, inflight>>

single_worker ==
    \/ worker_loop(1) \/ worker_wake(1)
    \/ fetch_ok(1) \/ fetch_fail(1)
    \/ write_page(1) \/ write_page_count(1) \/ flush_page(1) \/ write_page_error(1)
    \/ add_link(1) \/ links_done(1)

NextSingle ==
    \/ write_metadata
    \/ seed_single
    \/ single_worker
    \/ write_state_single
    \/ flush_state
    \/ close

SpecSingle == InitSingle /\ [][NextSingle]_vars

\* the URLs within k links of the start URL, over the links of the pages in
\* results
RECURSIVE within(_)
within(k) ==
    IF k = 0 THEN {start_url}
    ELSE LET r == within(k - 1) IN
         r \cup UNION {Range(pages[i].links) : i \in {j \in DOMAIN pages : pages[j].url \in r}}

\* k is the least number of links from the start URL to u
is_link_distance(u, k) == u \in within(k) /\ (k > 0 => u \notin within(k - 1))

pops_in_depth_order == \A i, j \in DOMAIN popped : i <= j => popped[i][2] <= popped[j][2]

\* C37 as stated: in a fresh crawl with one worker the URLs are popped in
\* non-decreasing depth order, and every admitted URL was admitted with the
\* least number of links that lead to it from the start URL over the links of
\* the fetched pages
BreadthFirstDepths ==
    /\ pops_in_depth_order
    /\ \A i \in DOMAIN admitted : is_link_distance(admitted[i][1], admitted[i][2])

\* the crawl with one worker in which no write_page() raises
NextSingleStorageWorks ==
    \/ write_metadata
    \/ seed_single
    \/ worker_loop(1) \/ worker_wake(1)
    \/ fetch_ok(1) \/ fetch_fail(1)
    \/ write_page(1) \/ write_page_count(1) \/ flush_page(1)
    \/ add_link(1) \/ links_done(1)
    \/ write_state_single
    \/ flush_state
    \/ close

\* C37 holds as stated under SpecSingleStorageWorks: depths are link
\* distances as long as every write_page() of the crawl succeeds
SpecSingleStorageWorks == InitSingle /\ [][NextSingleStorageWorks]_vars

\* C37: write_page() raised for page b, whose link to c was therefore never
\* offered (C25); c was admitted later through x and y at depth 3, while the
\* fetched pages a and b put it at two links from the start URL
AdmittedDeeperThanLinkDistance ==
    /\ \E i \in DOMAIN admitted : admitted[i] = <<SC, 3>>
    /\ is_link_distance(SC, 2)
    /\ pops_in_depth_order

\* with every write succeeding, c is admitted at depth 2 and offered again
\* at depth 3 by y
AdmittedAtLinkDistance ==
    /\ \E i \in DOMAIN admitted : admitted[i] = <<SC, 2>>
    /\ lastAdd.url = SC /\ lastAdd.depth = 3 /\ lastAdd.result = "visited"


(* ------------------------------------------------------------------ *)
(* A failing S3Storage.flush                                            *)
(* ------------------------------------------------------------------ *)
\* the step of task w in which its existence probe raised: head_object of an
\* object that is there gave no answer
probe_raised(w) == spc[w] = "exists" /\ spc'[w] # "exists" /\ s3_object # <<>> /\ spc'[w] # "get"

\* the step of task w in which get_object or put_object raised
transfer_raised(w) == spc[w] \in {"get", "put"} /\ spc'[w] = "idle"

\* C38 as stated: when the existence probe, the download or the upload of a
\* flush raises, the flush ends there with the error (the task is back at its
\* caller, nothing was uploaded) and the buffer is as it was; the upload of a
\* flush or of close() that succeeds holds every record it took from the buffer
FailedFlushKeepsBuffer ==
    [][/\ \A w \in Workers :
            /\ (probe_raised(w) \/ transfer_raised(w)) =>
                  /\ spc'[w] = "idle"
                  /\ s3_buffer' = s3_buffer /\ s3_object' = s3_object
            /\ (spc[w] = "put" /\ spc'[w] = "clear") => Range(sloc[w].data) \subseteq Range(s3_object')
       /\ (~s3_closed /\ s3_closed') => Range(s3_buffer) \subseteq Range(s3_object')]_vars

\* C38: for the download and the upload the statement holds
FailedTransferKeepsBuffer ==
    [][/\ \A w \in Workers :
            /\ transfer_raised(w) =>
                  /\ s3_buffer' = s3_buffer /\ s3_object' = s3_object
            /\ (spc[w] = "put" /\ spc'[w] = "clear") => Range(sloc[w].data) \subseteq Range(s3_object')
       /\ (~s3_closed /\ s3_closed') => Range(s3_buffer) \subseteq Range(s3_object')]_vars

\* C38: the end the statement promises is reached: after close() every
\* write is in the object
UploadedAfterFailedFlush ==
    /\ s3_closed /\ started = MaxWrites
    /\ Range(issued) \subseteq Range(s3_object)

\* C38: the probe of a flush raised on an object that holds records, the flush
\* went on as for a new object and its upload replaced them (C13)
ProbeErrorNotRaised ==
    \E w \in Workers :
        /\ spc[w] = "clear" /\ sloc[w].existing = <<>>
        /\ s3_object = sloc[w].data
        /\ \E r \in Range(issued) : r \notin Range(s3_object) /\ r \notin Range(s3_buffer)

====
